---------------------------- MODULE Spec2Model ----------------------------
(***************************************************************************)
(* The Teko evaluator (src/Teko/src/interpret.rs): a work-stack machine    *)
(* over shared expression nodes, with its builtins, its tail-call          *)
(* optimizer and its wind/unwind protocol.                                 *)
(*                                                                         *)
(* A Vec used as a stack is a sequence whose LAST element is the top.      *)
(* A HashMap is a function whose DOMAIN is the set of keys.                *)
(* A symbol name or a string is a sequence of one-character strings; the   *)
(* fixed pieces of a formatted message are kept as whole fragments.        *)
(* Option<Source> is a column number, 0 standing for None.                 *)
(* A Rust panic (panic!, unimplemented!, unwrap/expect on None, index out  *)
(* of range) stops the machine in pc = "panic".                            *)
(*                                                                         *)
(* wound is a history variable: for every Wind marker pending on the work  *)
(* stack, the environment at the moment wind pushed it.  entered is a      *)
(* history variable: for every pending call of a library function or of a  *)
(* library macro that pushed a marker of its own, the store before the     *)
(* step, the height of the work stack below the marker, and whether an     *)
(* unwind has run since.                                                   *)
(***************************************************************************)
EXTENDS Integers, Sequences, FiniteSets, TLC

VARIABLES input, program, store, params, result, pc, wound, entered

vars == <<input, program, store, params, result, pc, wound, entered>>

(***************************************************************************)
(* Bounds of the model.                                                    *)
(***************************************************************************)
MaxIter == 3
MaxArgs == 3
MaxLit == 2
MaxForms == 3

(***************************************************************************)
(* Sequences used as Vec.                                                  *)
(***************************************************************************)
Last(s) == s[Len(s)]

Front(s) == SubSeq(s, 1, Len(s) - 1)

RECURSIVE Reverse(_)
Reverse(s) == IF s = <<>> THEN <<>> ELSE Append(Reverse(Tail(s)), Head(s))

Contains(s, x) == \E i \in 1..Len(s) : s[i] = x

RECURSIVE Occurrences(_, _)
Occurrences(s, x) ==
    IF s = <<>> THEN 0
    ELSE (IF Head(s) = x THEN 1 ELSE 0) + Occurrences(Tail(s), x)

\* str.contains(needle) on texts kept as sequences of fragments
ContainsText(text, needle) ==
    \E i \in 0..(Len(text) - Len(needle)) :
        SubSeq(text, i + 1, i + Len(needle)) = needle

(***************************************************************************)
(* Nodes: Sourcedata(Option<Source>, Coredata).                            *)
(***************************************************************************)
NoSource == 0

Null(src) == [kind |-> "Null", src |-> src]

Boolean(src, b) == [kind |-> "Boolean", src |-> src, bool |-> b]

Integer(src, v) == [kind |-> "Integer", src |-> src, int |-> v]

String(src, s) == [kind |-> "String", src |-> src, str |-> s]

Symbol(src, s) == [kind |-> "Symbol", src |-> src, sym |-> s]

Pair(src, h, t) == [kind |-> "Pair", src |-> src, head |-> h, tail |-> t]

Error(src, payload) == [kind |-> "Error", src |-> src, err |-> payload]

FunctionBuiltin(native) ==
    [kind |-> "Function", src |-> NoSource, origin |-> "Builtin", native |-> native]

FunctionLibrary(parameters, code) ==
    [kind |-> "Function", src |-> NoSource, origin |-> "Library",
     parameters |-> parameters, code |-> code]

MacroBuiltin(native) ==
    [kind |-> "Macro", src |-> NoSource, origin |-> "Builtin", native |-> native]

MacroLibrary(bound, code) ==
    [kind |-> "Macro", src |-> NoSource, origin |-> "Library",
     bound |-> bound, code |-> code]

\* Coredata::Internal(Commands::...)
Call(src, callee) == [kind |-> "Internal", src |-> src, cmd |-> "Call", callee |-> callee]

Prepare(src, args) == [kind |-> "Internal", src |-> src, cmd |-> "Prepare", args |-> args]

Parameterize == [kind |-> "Internal", src |-> NoSource, cmd |-> "Parameterize"]

Deparameterize(names) ==
    [kind |-> "Internal", src |-> NoSource, cmd |-> "Deparameterize", names |-> names]

If(first, second) ==
    [kind |-> "Internal", src |-> NoSource, cmd |-> "If",
     first |-> first, second |-> second]

Evaluate == [kind |-> "Internal", src |-> NoSource, cmd |-> "Evaluate"]

Wind == [kind |-> "Internal", src |-> NoSource, cmd |-> "Wind"]

IsCmd(node, c) == node.kind = "Internal" /\ node.cmd = c

\* Sourcedata::head / Sourcedata::tail
Sourcedata_head(node) == IF node.kind = "Pair" THEN node.head ELSE Null(NoSource)

Sourcedata_tail(node) == IF node.kind = "Pair" THEN node.tail ELSE Null(NoSource)

(***************************************************************************)
(* The reader: one character at a time, a stack of finished nodes and of   *)
(* markers of the parentheses still open.                                  *)
(***************************************************************************)
DefaultColumn == 1

Open(src) == [kind |-> "Open", src |-> src]

ParseStateDefault ==
    [pos |-> DefaultColumn, lexeme |-> DefaultColumn, token |-> <<>>,
     stack |-> <<>>, unmatched |-> <<>>, error |-> FALSE]

move_token_to_stack(st) ==
    IF st.token # <<>>
    THEN [st EXCEPT !.stack = Append(@, Symbol(st.lexeme, st.token)), !.token = <<>>]
    ELSE st

whitespace(st) == move_token_to_stack(st)

left_parenthesis(st) ==
    LET s1 == move_token_to_stack(st)
    IN  [s1 EXCEPT !.unmatched = Append(@, s1.pos),
                   !.stack = Append(@, Open(s1.pos))]

pop_previous_opening_parenthesis(st) ==
    IF st.unmatched = <<>> THEN [st EXCEPT !.error = TRUE]
    ELSE [st EXCEPT !.unmatched = Front(@)]

\* the loop of right_parenthesis: fold the nodes above the nearest marker
RECURSIVE CloseList(_, _)
CloseList(stack, active) ==
    IF stack = <<>>
    THEN [stack |-> <<>>, active |-> active, source |-> DefaultColumn]
    ELSE IF Last(stack).kind = "Open"
         THEN [stack |-> Front(stack), active |-> active, source |-> Last(stack).src]
         ELSE CloseList(Front(stack), Pair(Last(stack).src, Last(stack), active))

right_parenthesis(st) ==
    LET s1 == pop_previous_opening_parenthesis(move_token_to_stack(st))
        c  == CloseList(s1.stack, Null(s1.pos))
    IN  [s1 EXCEPT !.stack = Append(c.stack, [c.active EXCEPT !.src = c.source])]

otherwise(character, st) ==
    [st EXCEPT !.lexeme = IF st.token = <<>> THEN st.pos ELSE @,
               !.token = Append(@, character)]

parse_internal(character, st) ==
    IF character = " " THEN whitespace(st)
    ELSE IF character = "(" THEN left_parenthesis(st)
    ELSE IF character = ")" THEN right_parenthesis(st)
    ELSE otherwise(character, st)

count_characters_and_lines(st) == [st EXCEPT !.pos = @ + 1]

parse_character(character, st) ==
    count_characters_and_lines(parse_internal(character, st))

RECURSIVE ParseChars(_, _, _)
ParseChars(chars, i, st) ==
    IF i > Len(chars) \/ st.error THEN st
    ELSE ParseChars(chars, i + 1, parse_character(chars[i], st))

\* parse_string(...).ok().unwrap(): the texts of the model are well formed
parse_string(chars) == whitespace(ParseChars(chars, 1, ParseStateDefault)).stack


(***************************************************************************)
(* Integer literals: BigInt::parse_bytes(text, 10), an optional sign and   *)
(* at least one decimal digit.                                             *)
(***************************************************************************)
DigitChars == <<"0", "1", "2", "3", "4", "5", "6", "7", "8", "9">>

IsDigit(c) == \E d \in 1..10 : DigitChars[d] = c

DigitValue(c) == (CHOOSE d \in 1..10 : DigitChars[d] = c) - 1

RECURSIVE DigitsValue(_, _)
DigitsValue(s, acc) ==
    IF s = <<>> THEN acc ELSE DigitsValue(Tail(s), 10 * acc + DigitValue(Head(s)))

parse_bytes(s) ==
    LET signed == s # <<>> /\ Head(s) \in {"-", "+"}
        digits == IF signed THEN Tail(s) ELSE s
    IN  IF digits # <<>> /\ \A i \in 1..Len(digits) : IsDigit(digits[i])
        THEN [some |-> TRUE,
              value |-> IF signed /\ Head(s) = "-"
                        THEN 0 - DigitsValue(digits, 0) ELSE DigitsValue(digits, 0)]
        ELSE [some |-> FALSE, value |-> 0]

\* format!["{}", source]: the column in decimal
RECURSIVE SourceText(_)
SourceText(n) ==
    IF n < 10 THEN <<DigitChars[n + 1]>>
    ELSE Append(SourceText(n \div 10), DigitChars[(n % 10) + 1])

(***************************************************************************)
(* The machine a native receives: (program, env) and whether it panicked.  *)
(***************************************************************************)
Panic(m) == [m EXCEPT !.panic = TRUE]

Push(m, node) == [m EXCEPT !.program = Append(@, node)]

Extend(m, nodes) == [m EXCEPT !.program = @ \o nodes]

Insert(map, key, value) ==
    [k \in (DOMAIN map) \cup {key} |-> IF k = key THEN value ELSE map[k]]

Remove(map, key) == [k \in (DOMAIN map) \ {key} |-> map[k]]

\* the push of a binding in Call / Prepare: contains_key, then push or insert
Bind(map, key, value) ==
    IF key \in DOMAIN map THEN [map EXCEPT ![key] = Append(@, value)]
    ELSE Insert(map, key, <<value>>)

RECURSIVE CollectHeads(_)
CollectHeads(data) ==
    IF data.kind = "Pair" THEN <<data.head>> \o CollectHeads(data.tail) ELSE <<>>

\* the heads in the order the loop collects them, without the reversal
collect_pair_into_vec_as_collected(data) == CollectHeads(data)

collect_pair_into_vec(data) == Reverse(CollectHeads(data))

\* panics on an element that is no Symbol
collect_pair_into_vec_string(data) ==
    LET v == collect_pair_into_vec(data)
    IN  IF \A i \in 1..Len(v) : v[i].kind = "Symbol"
        THEN [ok |-> TRUE, names |-> Reverse([i \in 1..Len(v) |-> v[i].sym])]
        ELSE [ok |-> FALSE, names |-> <<>>]

RECURSIVE pop_parameters(_, _)
pop_parameters(m, args) ==
    IF args = <<>> \/ m.panic THEN m
    ELSE LET arg == Head(args)
         IN  IF arg \notin DOMAIN m.store THEN Panic(m)
             ELSE LET left == IF m.store[arg] = <<>> THEN <<>> ELSE Front(m.store[arg])
                      next == IF left = <<>>
                              THEN [m EXCEPT !.store = Remove(@, arg)]
                              ELSE [m EXCEPT !.store[arg] = left]
                  IN  pop_parameters(next, Tail(args))

\* the loop returning the names of the marker before the new ones
RECURSIVE MergeParameters_content_first(_, _, _, _)
MergeParameters_content_first(m, content, parameters, to_add) ==
    IF parameters = <<>> \/ m.panic THEN [m |-> m, names |-> content \o to_add]
    ELSE LET parameter == Head(parameters)
         IN  IF Contains(content, parameter)
             THEN IF parameter \in DOMAIN m.store /\ m.store[parameter] # <<>>
                  THEN MergeParameters_content_first(
                           [m EXCEPT !.store[parameter] = Front(@)],
                           content, Tail(parameters), to_add)
                  ELSE [m |-> Panic(m), names |-> to_add]
             ELSE MergeParameters_content_first(m, content, Tail(parameters),
                                                Append(to_add, parameter))

\* the loop of optimize_tail_call over the new parameters
RECURSIVE MergeParameters(_, _, _, _)
MergeParameters(m, content, parameters, to_add) ==
    IF parameters = <<>> \/ m.panic THEN [m |-> m, names |-> to_add \o content]
    ELSE LET parameter == Head(parameters)
         IN  IF Contains(content, parameter)
             THEN IF parameter \in DOMAIN m.store /\ m.store[parameter] # <<>>
                  THEN MergeParameters([m EXCEPT !.store[parameter] = Front(@)],
                                       content, Tail(parameters), to_add)
                  ELSE [m |-> Panic(m), names |-> to_add]
             ELSE MergeParameters(m, content, Tail(parameters),
                                  Append(to_add, parameter))

\* the markers are merged but the shadowed bindings are kept
optimize_tail_call_keeps_bindings(m, parameters) ==
    IF m.program # <<>> /\ IsCmd(Last(m.program), "Deparameterize")
    THEN [m |-> [m EXCEPT !.program = Front(@)],
          names |-> SelectSeq(parameters,
                              LAMBDA q : ~Contains(Last(m.program).names, q))
                    \o Last(m.program).names]
    ELSE [m |-> m, names |-> parameters]

\* the popped top is not pushed back when it is no marker
optimize_tail_call_drops_top(m, parameters) ==
    IF m.program # <<>> /\ IsCmd(Last(m.program), "Deparameterize")
    THEN MergeParameters([m EXCEPT !.program = Front(@)],
                         Last(m.program).names, parameters, <<>>)
    ELSE IF m.program # <<>>
    THEN [m |-> [m EXCEPT !.program = Front(@)], names |-> parameters]
    ELSE [m |-> m, names |-> parameters]

\* no merge: every call gets a marker of its own
optimize_tail_call_never_merges(m, parameters) == [m |-> m, names |-> parameters]

optimize_tail_call(m, parameters) ==
    IF m.program # <<>> /\ IsCmd(Last(m.program), "Deparameterize")
    THEN MergeParameters([m EXCEPT !.program = Front(@)],
                         Last(m.program).names, parameters, <<>>)
    ELSE [m |-> m, names |-> parameters]

(***************************************************************************)
(* The wind / unwind protocol.                                             *)
(***************************************************************************)
make_unwind == Call(NoSource, FunctionBuiltin("unwind"))

unwind_with_error_message(string, m) ==
    Push([m EXCEPT !.params = Append(@, <<Error(NoSource, String(NoSource, string))>>)],
         make_unwind)

\* the while loop of unwind
RECURSIVE UnwindScan(_)
UnwindScan(m) ==
    IF m.program = <<>> \/ m.panic THEN m
    ELSE LET top  == Last(m.program)
             rest == [m EXCEPT !.program = Front(@)]
         IN  IF IsCmd(top, "Deparameterize")
             THEN UnwindScan(pop_parameters(rest, top.names))
             ELSE IF IsCmd(top, "Call")
             THEN UnwindScan([rest EXCEPT !.params =
                                 IF @ = <<>> THEN <<>> ELSE Front(@)])
             ELSE IF IsCmd(top, "Wind") THEN rest
             ELSE UnwindScan(rest)

unwind(m) ==
    IF m.params = <<>> \/ Last(m.params) = <<>> THEN Panic(m)
    ELSE UnwindScan([m EXCEPT !.result = Last(Last(m.params))])

wind(m) == Extend(Push(m, Wind), collect_pair_into_vec(m.result))

(***************************************************************************)
(* Builtin functions: called with env.params holding the evaluated         *)
(* arguments in its top frame.                                             *)
(***************************************************************************)
AllIntegers(args) == \A i \in 1..Len(args) : args[i].kind = "Integer"

RECURSIVE Sum(_)
Sum(args) == IF args = <<>> THEN 0 ELSE Sum(Front(args)) + Last(args).int

RECURSIVE Product(_)
Product(args) == IF args = <<>> THEN 1 ELSE Product(Front(args)) * Last(args).int

\* BigInt division truncates toward zero
TruncDiv(a, b) ==
    LET abs(x) == IF x < 0 THEN 0 - x ELSE x
        q == abs(a) \div abs(b)
    IN  IF (a < 0) = (b < 0) THEN q ELSE 0 - q

\* the fold of divide; none when a divisor is zero
RECURSIVE Quotient(_, _)
Quotient(acc, args) ==
    IF args = <<>> THEN [some |-> TRUE, value |-> acc]
    ELSE IF Head(args).int = 0 THEN [some |-> FALSE, value |-> 0]
    ELSE Quotient(TruncDiv(acc, Head(args).int), Tail(args))

\* plus that starts its fold from the second argument
plus_skips_first(m) ==
    IF m.params = <<>> \/ ~AllIntegers(Last(m.params)) THEN Panic(m)
    ELSE [m EXCEPT !.result =
             Integer(NoSource, IF Last(m.params) = <<>> THEN 0
                               ELSE Sum(Tail(Last(m.params))))]

plus(m) ==
    IF m.params = <<>> \/ ~AllIntegers(Last(m.params)) THEN Panic(m)
    ELSE [m EXCEPT !.result = Integer(NoSource, Sum(Last(m.params)))]

minus(m) ==
    IF m.params = <<>> \/ ~AllIntegers(Last(m.params)) THEN Panic(m)
    ELSE LET arguments == Last(m.params)
             sum == IF Len(arguments) = 0 THEN 0
                    ELSE IF Len(arguments) = 1 THEN 0 - arguments[1].int
                    ELSE arguments[1].int - Sum(Tail(arguments))
         IN  [m EXCEPT !.result = Integer(NoSource, sum)]

multiply(m) ==
    IF m.params = <<>> \/ ~AllIntegers(Last(m.params)) THEN Panic(m)
    ELSE [m EXCEPT !.result = Integer(NoSource, Product(Last(m.params)))]

divide(m) ==
    IF m.params = <<>> \/ ~AllIntegers(Last(m.params)) \/ Last(m.params) = <<>>
    THEN Panic(m)
    ELSE LET arguments == Last(m.params)
             q == IF Len(arguments) = 1 THEN Quotient(1, arguments)
                  ELSE Quotient(arguments[1].int, Tail(arguments))
         IN  IF q.some THEN [m EXCEPT !.result = Integer(NoSource, q.value)]
             ELSE Panic(m)

\* the loop of geq: "true", "null" (after the break) or "panic"
RECURSIVE GeqLoop(_, _, _)
GeqLoop(args, has_last, last) ==
    IF args = <<>> THEN "true"
    ELSE IF Head(args).kind # "Integer" THEN "panic"
    ELSE IF has_last /\ ~(last >= Head(args).int) THEN "null"
    ELSE GeqLoop(Tail(args), TRUE, Head(args).int)

geq(m) ==
    IF m.params = <<>> THEN Panic(m)
    ELSE LET r == GeqLoop(Last(m.params), FALSE, 0)
         IN  IF r = "panic" THEN Panic(m)
             ELSE [m EXCEPT !.result = IF r = "true" THEN Boolean(NoSource, TRUE)
                                       ELSE Null(NoSource)]

not(m) ==
    IF m.params = <<>> THEN Panic(m)
    ELSE LET args == Last(m.params)
         IN  IF Len(args) # 1 THEN Push(m, make_unwind)
             ELSE IF args[1].kind = "Null"
             THEN [m EXCEPT !.result = Symbol(NoSource, <<"t", "r", "u", "e">>)]
             ELSE [m EXCEPT !.result = Null(NoSource)]

error(m) ==
    IF m.params = <<>> THEN Panic(m)
    ELSE LET args == Last(m.params)
         IN  IF Len(args) >= 2
             THEN Push([m EXCEPT !.result =
                           Error(NoSource, String(NoSource,
                               <<"Arity mismatch; Too many arguments to error">>))],
                       make_unwind)
             ELSE IF args # <<>>
             THEN [m EXCEPT !.result = Error(NoSource, args[1])]
             ELSE [m EXCEPT !.result = Error(NoSource, Null(NoSource))]

head(m) ==
    IF m.params = <<>> \/ Len(Last(m.params)) # 1 THEN Panic(m)
    ELSE [m EXCEPT !.result = Sourcedata_head(Last(m.params)[1])]

\* tail returning what head returns
tail_takes_head(m) ==
    IF m.params = <<>> \/ Len(Last(m.params)) # 1 THEN Panic(m)
    ELSE [m EXCEPT !.result = Sourcedata_head(Last(m.params)[1])]

tail(m) ==
    IF m.params = <<>> \/ Len(Last(m.params)) # 1 THEN Panic(m)
    ELSE [m EXCEPT !.result = Sourcedata_tail(Last(m.params)[1])]

pair(m) ==
    IF m.params = <<>> \/ Len(Last(m.params)) # 2 THEN Panic(m)
    ELSE [m EXCEPT !.result = Pair(NoSource, Last(m.params)[1], Last(m.params)[2])]

\* thread::sleep changes nothing of the machine
sleep(m) ==
    IF m.params = <<>> \/ Last(m.params) = <<>> THEN Panic(m)
    ELSE IF Last(m.params)[1].kind = "Integer" /\ Last(m.params)[1].int < 0
    THEN Panic(m)
    ELSE m

eval_expose(m) ==
    IF m.params = <<>>
    THEN unwind_with_error_message(<<"eval: parameter stack empty">>, m)
    ELSE IF Len(Last(m.params)) # 1
    THEN unwind_with_error_message(<<"eval: arity mismatch">>, m)
    ELSE Push(m, Last(m.params)[1])

define_internal(m) ==
    IF m.params = <<>> \/ Last(m.params) = <<>> THEN Panic(m)
    ELSE LET args == Last(m.params)
         IN  IF args[1].kind # "String" \/ Len(args) < 2 THEN Panic(m)
             ELSE [m EXCEPT !.store = Insert(@, args[1].str, <<args[2]>>)]

(***************************************************************************)
(* Builtin macros: called with env.result holding the unevaluated tail of  *)
(* the invocation.                                                         *)
(***************************************************************************)
quote(m) == m

\* vec.join(" ")
RECURSIVE Join(_)
Join(names) ==
    IF names = <<>> THEN <<>>
    ELSE IF Len(names) = 1 THEN names[1]
    ELSE names[1] \o <<" ">> \o Join(Tail(names))

string(m) ==
    LET vec == collect_pair_into_vec_string(m.result)
    IN  IF vec.ok THEN [m EXCEPT !.result = String(NoSource, Join(vec.names))]
        ELSE Panic(m)

make_macro(m) ==
    LET args == m.result
    IN  IF Sourcedata_head(args).kind # "Symbol" THEN Panic(m)
        ELSE [m EXCEPT !.result =
                 MacroLibrary(Sourcedata_head(args).sym,
                              collect_pair_into_vec(Sourcedata_tail(args)))]

function(m) ==
    LET args == m.result
        ps == collect_pair_into_vec_string(Sourcedata_head(args))
    IN  IF ~ps.ok THEN Panic(m)
        ELSE [m EXCEPT !.result =
                 FunctionLibrary(ps.names, collect_pair_into_vec(Sourcedata_tail(args)))]

set(m) == Panic(m)

define(m) ==
    LET arguments == m.result
    IN  IF Sourcedata_tail(arguments).kind # "Pair"
           \/ Sourcedata_head(arguments).kind # "Symbol"
        THEN Panic(m)
        ELSE [m EXCEPT
                 !.program = @ \o <<Call(NoSource, FunctionBuiltin("define_internal")),
                                    Parameterize,
                                    Sourcedata_tail(arguments).head,
                                    Parameterize,
                                    String(NoSource, Sourcedata_head(arguments).sym)>>,
                 !.params = Append(@, <<>>)]

if_conditional(m) ==
    LET arguments == m.result
    IN  Push(Push(m, If(Sourcedata_head(Sourcedata_tail(arguments)),
                        Sourcedata_head(Sourcedata_tail(Sourcedata_tail(arguments))))),
             Sourcedata_head(arguments))

\* transfer(&top, &mut program, &mut env) through the function pointer
Transfer(native, m) ==
    CASE native = "plus" -> plus(m)
      [] native = "minus" -> minus(m)
      [] native = "multiply" -> multiply(m)
      [] native = "divide" -> divide(m)
      [] native = "geq" -> geq(m)
      [] native = "not" -> not(m)
      [] native = "error" -> error(m)
      [] native = "head" -> head(m)
      [] native = "tail" -> tail(m)
      [] native = "pair" -> pair(m)
      [] native = "sleep" -> sleep(m)
      [] native = "unwind" -> unwind(m)
      [] native = "eval_expose" -> eval_expose(m)
      [] native = "define_internal" -> define_internal(m)
      [] native = "quote" -> quote(m)
      [] native = "string" -> string(m)
      [] native = "if_conditional" -> if_conditional(m)
      [] native = "set" -> set(m)
      [] native = "wind" -> wind(m)
      [] native = "define" -> define(m)
      [] native = "function" -> function(m)
      [] native = "make_macro" -> make_macro(m)

initialize_environment_with_standard_library ==
    [store |->
        (<<"+">> :> <<FunctionBuiltin("plus")>>)
     @@ (<<"-">> :> <<FunctionBuiltin("minus")>>)
     @@ (<<"*">> :> <<FunctionBuiltin("multiply")>>)
     @@ (<<"/">> :> <<FunctionBuiltin("divide")>>)
     @@ (<<">", "=">> :> <<FunctionBuiltin("geq")>>)
     @@ (<<"n", "o", "t">> :> <<FunctionBuiltin("not")>>)
     @@ (<<"e", "r", "r", "o", "r">> :> <<FunctionBuiltin("error")>>)
     @@ (<<"h", "e", "a", "d">> :> <<FunctionBuiltin("head")>>)
     @@ (<<"t", "a", "i", "l">> :> <<FunctionBuiltin("tail")>>)
     @@ (<<"p", "a", "i", "r">> :> <<FunctionBuiltin("pair")>>)
     @@ (<<"s", "l", "e", "e", "p">> :> <<FunctionBuiltin("sleep")>>)
     @@ (<<"u", "n", "w", "i", "n", "d">> :> <<FunctionBuiltin("unwind")>>)
     @@ (<<"e", "v", "a", "l">> :> <<FunctionBuiltin("eval_expose")>>)
     @@ (<<"'">> :> <<MacroBuiltin("quote")>>)
     @@ (<<"\"">> :> <<MacroBuiltin("string")>>)
     @@ (<<"i", "f">> :> <<MacroBuiltin("if_conditional")>>)
     @@ (<<"s", "e", "t", "!">> :> <<MacroBuiltin("set")>>)
     @@ (<<"w", "i", "n", "d">> :> <<MacroBuiltin("wind")>>)
     @@ (<<"d", "e", "f", "i", "n", "e">> :> <<MacroBuiltin("define")>>)
     @@ (<<"f", "n">> :> <<MacroBuiltin("function")>>)
     @@ (<<"m", "o">> :> <<MacroBuiltin("make_macro")>>),
     params |-> <<>>,
     result |-> Null(NoSource)]

(***************************************************************************)
(* Program texts.  A text is written as its words, joined by single        *)
(* spaces: <<lp, <<"+">>, Lit(1), rp>> is "( + 1 )".                        *)
(***************************************************************************)
lp == <<"(">>

rp == <<")">>

Lit(n) == IF n < 0 THEN <<"-">> \o SourceText(0 - n) ELSE SourceText(n)

Text(words) == Join(words)

PlusForm(args) ==
    <<lp, <<"+">>>> \o [i \in 1..Len(args) |-> Lit(args[i])] \o <<rp>>

\* spellings of the symbols the texts use
w_plus == <<"+">>

w_minus == <<"-">>

w_geq == <<">", "=">>

w_define == <<"d", "e", "f", "i", "n", "e">>

w_fn == <<"f", "n">>

w_mo == <<"m", "o">>

w_if == <<"i", "f">>

w_wind == <<"w", "i", "n", "d">>

w_error == <<"e", "r", "r", "o", "r">>

w_not == <<"n", "o", "t">>

w_head == <<"h", "e", "a", "d">>

w_tail == <<"t", "a", "i", "l">>

w_pair == <<"p", "a", "i", "r">>

w_quote == <<"'">>

w_foo == <<"f", "o", "o">>

w_loop == <<"l", "o", "o", "p">>

w_outer == <<"o", "u", "t", "e", "r">>

w_even == <<"e", "v", "e", "n">>

w_odd == <<"o", "d", "d">>

w_f == <<"f">>

w_g == <<"g">>

w_n == <<"n">>

w_a == <<"a">>

w_b == <<"b">>

w_x == <<"x">>

w_h == <<"h">>

w_m == <<"m">>

w_c == <<"c">>

\* ( a b c ): a list of the given word sequences
List(items) ==
    LET RECURSIVE Flat(_)
        Flat(s) == IF s = <<>> THEN <<>> ELSE Head(s) \o Flat(Tail(s))
    IN  <<lp>> \o Flat(items) \o <<rp>>

\* a single word as a word sequence
W(word) == <<word>>

\* the doctest of interpret and eval: "(+ 1 2 4) (+ 1 2)"
DoctestWords == PlusForm(<<1, 2, 4>>) \o PlusForm(<<1, 2>>)

Tuples(S, n) == UNION {[1..k -> S] : k \in 0..n}

\* one call of + on up to MaxArgs literals
PlusArgs == Tuples(0..MaxLit, MaxArgs)

PlusWords == {PlusForm(args) : args \in PlusArgs}

\* programs of up to MaxForms calls of +, the forms of the doctest among them
FormArgs == {<<>>, <<1, 2>>, <<1, 2, 4>>}

FormSeqs == UNION {[1..k -> FormArgs] : k \in 1..MaxForms}

RECURSIVE FormsWords(_)
FormsWords(fs) ==
    IF fs = <<>> THEN <<>> ELSE PlusForm(Head(fs)) \o FormsWords(Tail(fs))

MultiWords == {FormsWords(fs) : fs \in FormSeqs}

\* the forms the texts are built from
CallForm(f, args) == List(<<W(f)>> \o args)

IfForm(c, a, b) == List(<<W(w_if), c, a, b>>)

FnForm(ps, body) == List(<<W(w_fn), List([i \in 1..Len(ps) |-> W(ps[i])]), body>>)

DefineForm(name, value) == List(<<W(w_define), W(name), value>>)

Geq0(x) == CallForm(w_geq, <<W(Lit(0)), W(x)>>)

Dec(x) == CallForm(w_minus, <<W(x), W(Lit(1))>>)

Inc(x) == CallForm(w_plus, <<W(x), W(Lit(1))>>)

\* (define loop (fn (n) (if (>= 0 n) n (loop (- n 1)))))
LoopDef ==
    DefineForm(w_loop,
        FnForm(<<w_n>>, IfForm(Geq0(w_n), W(w_n), CallForm(w_loop, <<Dec(w_n)>>))))

\* (define loop (fn (a b) (if (>= 0 a) b (loop (- a 1) (+ b 1)))))
Loop2Def ==
    DefineForm(w_loop,
        FnForm(<<w_a, w_b>>,
               IfForm(Geq0(w_a), W(w_b), CallForm(w_loop, <<Dec(w_a), Inc(w_b)>>))))

\* (define outer (fn (n) (+ (loop n) 1))): loop called in argument position
\* while outer's own n is bound
OuterDef ==
    DefineForm(w_outer,
        FnForm(<<w_n>>, CallForm(w_plus, <<CallForm(w_loop, <<W(w_n)>>), W(Lit(1))>>)))

\* (define even (fn (a) (if (>= 0 a) 1 (odd (- a 1)))))
EvenDef ==
    DefineForm(w_even,
        FnForm(<<w_a>>, IfForm(Geq0(w_a), W(Lit(1)), CallForm(w_odd, <<Dec(w_a)>>))))

\* (define odd (fn (b) (if (>= 0 b) 0 (even (- b 1)))))
OddDef ==
    DefineForm(w_odd,
        FnForm(<<w_b>>, IfForm(Geq0(w_b), W(Lit(0)), CallForm(w_even, <<Dec(w_b)>>))))

LoopShapes == {"self", "nested", "two", "mutual"}

LoopRuns == [shape : LoopShapes, n : 0..MaxIter]

LoopWords(r) ==
    CASE r.shape = "self" -> LoopDef \o CallForm(w_loop, <<W(Lit(r.n))>>)
      [] r.shape = "nested" ->
             LoopDef \o OuterDef \o CallForm(w_outer, <<W(Lit(r.n))>>)
      [] r.shape = "two" -> Loop2Def \o CallForm(w_loop, <<W(Lit(r.n)), W(Lit(0))>>)
      [] r.shape = "mutual" -> EvenDef \o OddDef \o CallForm(w_even, <<W(Lit(r.n))>>)

\* the forms that raise an error, or build one:
\*   unbound   (foo)           symbol    foo
\*   arity     (f 1)  with f of two parameters
\*   callable  (1 2)           error1    (error 1)
\*   error2    (error 1 2)     not0      (not)
Raises == {"unbound", "symbol", "arity", "callable", "error1", "error2", "not0"}

RaiseForm(r) ==
    CASE r = "unbound" -> CallForm(w_foo, <<>>)
      [] r = "symbol" -> W(w_foo)
      [] r = "arity" -> CallForm(w_f, <<W(Lit(1))>>)
      [] r = "callable" -> CallForm(Lit(1), <<W(Lit(2))>>)
      [] r = "error1" -> CallForm(w_error, <<W(Lit(1))>>)
      [] r = "error2" -> CallForm(w_error, <<W(Lit(1)), W(Lit(2))>>)
      [] r = "not0" -> CallForm(w_not, <<>>)

\* where the raising form X stands:
\*   top       X                  then      X (+ 1 2)
\*   arg       (pair 5 X)         fn        (g 1)  with g = (fn (a) X)
\*   wind      (wind X)           windthen  (wind X) (+ 1 2)
\*   windarg   (pair 5 (wind X))  windfn    (wind (g 1))
\*   fnwind    (h 1)  with h = (fn (a) (pair a (wind (g 2))))
\*   windin    (pair 7 (wind (pair 5 (pair 6 X))))
PlainContexts == {"top", "then", "arg", "fn"}

WindContexts == {"wind", "windthen", "windarg", "windfn", "fnwind", "windin"}

Contexts == PlainContexts \cup WindContexts

WindForm(body) == List(<<W(w_wind), body>>)

PairForm(x, y) == CallForm(w_pair, <<x, y>>)

\* (define f (fn (a b) a))
FDef == DefineForm(w_f, FnForm(<<w_a, w_b>>, W(w_a)))

\* (define g (fn (a) X))
GDef(x) == DefineForm(w_g, FnForm(<<w_a>>, x))

\* (define h (fn (a) (pair a (wind (g 2)))))
HDef ==
    DefineForm(w_h,
        FnForm(<<w_a>>,
               PairForm(W(w_a), WindForm(CallForm(w_g, <<W(Lit(2))>>)))))

ErrorRuns == [raise : Raises, ctx : Contexts]

ErrorWords(r) ==
    LET x == RaiseForm(r.raise)
        defs == (IF r.raise = "arity" THEN FDef ELSE <<>>)
                \o (IF r.ctx \in {"fn", "windfn", "fnwind"} THEN GDef(x) ELSE <<>>)
                \o (IF r.ctx = "fnwind" THEN HDef ELSE <<>>)
        g1 == CallForm(w_g, <<W(Lit(1))>>)
    IN  defs \o
        CASE r.ctx = "top" -> x
          [] r.ctx = "then" -> x \o PlusForm(<<1, 2>>)
          [] r.ctx = "arg" -> PairForm(W(Lit(5)), x)
          [] r.ctx = "fn" -> g1
          [] r.ctx = "wind" -> WindForm(x)
          [] r.ctx = "windthen" -> WindForm(x) \o PlusForm(<<1, 2>>)
          [] r.ctx = "windarg" -> PairForm(W(Lit(5)), WindForm(x))
          [] r.ctx = "windfn" -> WindForm(g1)
          [] r.ctx = "fnwind" -> CallForm(w_h, <<W(Lit(1))>>)
          [] r.ctx = "windin" ->
                PairForm(W(Lit(7)),
                         WindForm(PairForm(W(Lit(5)), PairForm(W(Lit(6)), x))))

\* calls of f = (fn (a b) a) with 0..MaxArgs literal arguments, at the top
\* level and in the tail position of g
ArityRuns == [args : 0..MaxArgs, tail : BOOLEAN]

ArityWords(r) ==
    LET call == CallForm(w_f, [i \in 1..r.args |-> W(Lit(i))])
    IN  FDef \o (IF r.tail THEN GDef(call) \o CallForm(w_g, <<W(Lit(1))>>) ELSE call)

\* the data forms head, tail and pair are applied to: a literal, (), and
\* a pair of two of them
Atoms == {W(Lit(n)) : n \in 0..MaxLit} \cup {List(<<>>)}

DataForms == Atoms \cup {PairForm(x, y) : x, y \in Atoms}

\* (head D), (tail D), (head (pair D E)) and (tail (pair D E))
PairRuns ==
    [op : {w_head, w_tail}, of : DataForms]
    \cup {[op |-> o, of |-> PairForm(x, y)] : o \in {w_head, w_tail}, x \in DataForms, y \in Atoms}

PairWords(r) == CallForm(r.op, <<r.of>>)

\* (define m (mo x (head x))) (m (+ 1 2)): a library macro whose expansion
\* is its first argument
MacroWords ==
    DefineForm(w_m, List(<<W(w_mo), W(w_x), CallForm(w_head, <<W(w_x)>>)>>))
    \o CallForm(w_m, <<PlusForm(<<1, 2>>)>>)

\* a wind form inside a wind form, the inner body raising with X and the
\* outer body raising after it:
\*   top   (wind (wind X) (foo)) (+ 1 2)
\*   arg   (pair 7 (wind (wind X) (foo)))
NestedRuns == [raise : Raises, ctx : {"top", "arg"}]

NestedWords(r) ==
    LET nest == List(<<W(w_wind), WindForm(RaiseForm(r.raise)), CallForm(w_foo, <<>>)>>)
    IN  (IF r.raise = "arity" THEN FDef ELSE <<>>)
        \o (IF r.ctx = "top" THEN nest \o PlusForm(<<1, 2>>)
            ELSE PairForm(W(Lit(7)), nest))

\* define applied to a name that is bound as a parameter:
\*   single  (define f (fn (a) (define a 9))) (f 1)
\*   shadow  (define g (fn (a) (define a 9)))
\*           (define h (fn (a) (pair (g 2) a))) (h 1)
\*   lost    (define g (fn (a) (define a 9)))
\*           (define h (fn (a) (pair (g 2) 1))) (h 1)
DefineRuns == {"single", "shadow", "lost"}

DefineWords(r) ==
    LET body == List(<<W(w_define), W(w_a), W(Lit(9))>>)
    IN  IF r = "single"
        THEN DefineForm(w_f, FnForm(<<w_a>>, body)) \o CallForm(w_f, <<W(Lit(1))>>)
        ELSE GDef(body)
             \o DefineForm(w_h,
                    FnForm(<<w_a>>,
                           PairForm(CallForm(w_g, <<W(Lit(2))>>),
                                    IF r = "shadow" THEN W(w_a) ELSE W(Lit(1)))))
             \o CallForm(w_h, <<W(Lit(1))>>)

\* (wind (wind (pair 5 (wind (error 1 2))))) (+ 1 2): the frame of pair is
\* gone when its Parameterize is popped, with two Wind markers pending
AbortWords ==
    List(<<W(w_wind), WindForm(PairForm(W(Lit(5)), WindForm(RaiseForm("error2"))))>>)
    \o PlusForm(<<1, 2>>)

\* a binding under a name that reads as an integer:
\*   define  (define N 9) N
\*   param   (define f (fn (N) N)) (f 9)
LiteralRuns == [n : (0 - 1)..MaxLit, shape : {"define", "param"}]

LiteralWords(r) ==
    IF r.shape = "define"
    THEN List(<<W(w_define), W(Lit(r.n)), W(Lit(9))>>) \o W(Lit(r.n))
    ELSE DefineForm(w_f, FnForm(<<Lit(r.n)>>, W(Lit(r.n))))
         \o CallForm(w_f, <<W(Lit(9))>>)

\* an if form at top level, (if C 1 2), with the condition C one of
\*   null   ()          zero   0
\*   geq    (>= 1 0)    less   (>= 0 1)
IfRuns == {"null", "zero", "geq", "less"}

IfCondition(r) ==
    CASE r = "null" -> List(<<>>)
      [] r = "zero" -> W(Lit(0))
      [] r = "geq" -> CallForm(w_geq, <<W(Lit(1)), W(Lit(0))>>)
      [] r = "less" -> CallForm(w_geq, <<W(Lit(0)), W(Lit(1))>>)

IfWords(r) == IfForm(IfCondition(r), W(Lit(1)), W(Lit(2)))

\* a call of head without arguments, written in the source or built by a
\* macro from the function value itself:
\*   direct  (head)
\*   built   (define m (mo x (pair head x))) (m)
SignalRuns == {"direct", "built"}

SignalWords(r) ==
    IF r = "direct" THEN CallForm(w_head, <<>>)
    ELSE DefineForm(w_m, List(<<W(w_mo), W(w_x),
                                CallForm(w_pair, <<W(w_head), W(w_x)>>)>>))
         \o CallForm(w_m, <<>>)

\* the quote macro applied to forms that would raise if they were evaluated:
\*   empty  (')              atoms  (' 1 foo)
\*   forms  (' (foo) (1 2))  arg    (head (' (foo) 2))
QuoteRuns == {"empty", "atoms", "forms", "arg"}

QuoteWords(r) ==
    LET foo == CallForm(w_foo, <<>>)
    IN  CASE r = "empty" -> CallForm(w_quote, <<>>)
          [] r = "atoms" -> CallForm(w_quote, <<W(Lit(1)), W(w_foo)>>)
          [] r = "forms" -> CallForm(w_quote, <<foo, RaiseForm("callable")>>)
          [] r = "arg" -> CallForm(w_head, <<CallForm(w_quote, <<foo, W(Lit(2))>>)>>)

\* a call of the library macro m as the last action of a body:
\*   fn  (define m (mo x 1)) (define f (fn (a) (m))) (f 1)
\*   mo  (define m (mo x 1)) (define g (mo a (m))) (g)
MacroTailRuns == {"fn", "mo"}

\* (define m (mo x (define x 1))) (m 5): a library macro whose body defines
\* its bound name
MacroDefineWords ==
    DefineForm(w_m, List(<<W(w_mo), W(w_x), List(<<W(w_define), W(w_x), W(Lit(1))>>)>>))
    \o CallForm(w_m, <<W(Lit(5))>>)

MacroTailWords(r) ==
    DefineForm(w_m, List(<<W(w_mo), W(w_x), W(Lit(1))>>))
    \o (IF r = "fn"
        THEN DefineForm(w_f, FnForm(<<w_a>>, CallForm(w_m, <<>>)))
             \o CallForm(w_f, <<W(Lit(1))>>)
        ELSE DefineForm(w_g, List(<<W(w_mo), W(w_a), CallForm(w_m, <<>>)>>))
             \o CallForm(w_g, <<>>))

\* a tail call whose parameters meet the names of the pending marker:
\*   disjoint  (define g (fn (b) b)) (define f (fn (a) (g a))) (f 1)
\*   partial   (define g (fn (b c) (+ b c))) (define f (fn (a b) (g a b))) (f 1 2)
\*   twice     (define f (fn (a a) (if (>= 0 a) a (f 0 0)))) (f 1 2)
\*   short     (define f (fn (a a) a)) (define g (fn (a) (f 1 2))) (g 5)
\*   stolen    (define f (fn (a a) a)) (define g (fn (a) (f 1 2)))
\*             (define h (fn (a) (pair (g 5) a))) (h 7)
MergeRuns == {"disjoint", "partial", "twice", "short", "stolen"}

MergeWords(r) ==
    CASE r = "disjoint" ->
             DefineForm(w_g, FnForm(<<w_b>>, W(w_b)))
             \o DefineForm(w_f, FnForm(<<w_a>>, CallForm(w_g, <<W(w_a)>>)))
             \o CallForm(w_f, <<W(Lit(1))>>)
      [] r = "partial" ->
             DefineForm(w_g, FnForm(<<w_b, w_c>>, CallForm(w_plus, <<W(w_b), W(w_c)>>)))
             \o DefineForm(w_f, FnForm(<<w_a, w_b>>, CallForm(w_g, <<W(w_a), W(w_b)>>)))
             \o CallForm(w_f, <<W(Lit(1)), W(Lit(2))>>)
      [] r = "twice" ->
             DefineForm(w_f,
                 FnForm(<<w_a, w_a>>,
                        IfForm(Geq0(w_a), W(w_a),
                               CallForm(w_f, <<W(Lit(0)), W(Lit(0))>>))))
             \o CallForm(w_f, <<W(Lit(1)), W(Lit(2))>>)
      [] r \in {"short", "stolen"} ->
             DefineForm(w_f, FnForm(<<w_a, w_a>>, W(w_a)))
             \o DefineForm(w_g, FnForm(<<w_a>>, CallForm(w_f, <<W(Lit(1)), W(Lit(2))>>)))
             \o (IF r = "short" THEN CallForm(w_g, <<W(Lit(5))>>)
                 ELSE DefineForm(w_h,
                          FnForm(<<w_a>>,
                                 PairForm(CallForm(w_g, <<W(Lit(5))>>), W(w_a))))
                      \o CallForm(w_h, <<W(Lit(7))>>))

Sources ==
    {Text(w) : w \in PlusWords \cup MultiWords \cup {DoctestWords, MacroWords}
                     \cup {LoopWords(r) : r \in LoopRuns}
                     \cup {ErrorWords(r) : r \in ErrorRuns}
                     \cup {ArityWords(r) : r \in ArityRuns}
                     \cup {PairWords(r) : r \in PairRuns}
                     \cup {NestedWords(r) : r \in NestedRuns}
                     \cup {DefineWords(r) : r \in DefineRuns}
                     \cup {LiteralWords(r) : r \in LiteralRuns}
                     \cup {IfWords(r) : r \in IfRuns}
                     \cup {SignalWords(r) : r \in SignalRuns}
                     \cup {MacroTailWords(r) : r \in MacroTailRuns}
                     \cup {MergeWords(r) : r \in MergeRuns}
                     \cup {QuoteWords(r) : r \in QuoteRuns}
                     \cup {AbortWords, MacroDefineWords}}

(***************************************************************************)
(* eval: the state of the loop is (program, env); one action per arm of    *)
(* the match on the popped node.                                           *)
(***************************************************************************)
\* eval without the reversal: the last form is popped first
eval_entry_unreversed(p) == p

\* program.reverse() on entry
eval_entry(p) == Reverse(p)

Init ==
    /\ input \in {parse_string(t) : t \in Sources}
    /\ program = eval_entry(input)
    /\ store = initialize_environment_with_standard_library.store
    /\ params = initialize_environment_with_standard_library.params
    /\ result = initialize_environment_with_standard_library.result
    /\ pc = "run"
    /\ wound = <<>>
    /\ entered = <<>>

Top == Last(program)

\* the machine after program.pop()
Popped ==
    [program |-> Front(program), store |-> store, params |-> params,
     result |-> result, panic |-> FALSE]

\* the Wind markers pending on a work stack
WindMarkers(p) == {i \in 1..Len(p) : IsCmd(p[i], "Wind")}

\* the history after a step: wind pushes one marker, a step consumes at most
\* the topmost one
Recorded(m) ==
    LET n == Cardinality(WindMarkers(m.program))
    IN  IF n > Len(wound) THEN Append(wound, [store |-> store, params |-> params])
        ELSE SubSeq(wound, 1, n)

\* a Call of a library function, with as many arguments as parameters, that
\* pushes a marker of its own
EntersBody ==
    /\ program # <<>>
    /\ IsCmd(Top, "Call")
    /\ Top.callee.kind = "Function"
    /\ Top.callee.origin = "Library"
    /\ params # <<>>
    /\ Len(Last(params)) = Len(Top.callee.parameters)
    /\ ~(Len(program) >= 2 /\ IsCmd(program[Len(program) - 1], "Deparameterize"))

\* the Prepare of a library macro, which pushes an Evaluate marker and a
\* marker of its own above it
EntersMacro ==
    /\ program # <<>>
    /\ IsCmd(Top, "Prepare")
    /\ result.kind = "Macro"
    /\ result.origin = "Library"

\* the Call of the unwind native
Unwinds ==
    /\ program # <<>>
    /\ IsCmd(Top, "Call")
    /\ Top.callee.kind = "Function"
    /\ Top.callee.origin = "Builtin"
    /\ Top.callee.native = "unwind"

\* the history after a step: the calls whose marker is still on the work
\* stack, and the call a step enters
Entered(m) ==
    LET kept == SelectSeq(entered, LAMBDA c : c.height < Len(m.program))
        seen == IF Unwinds THEN [i \in 1..Len(kept) |-> [kept[i] EXCEPT !.raised = TRUE]]
                ELSE kept
    IN  IF EntersBody /\ ~m.panic
        THEN Append(seen, [height |-> Len(program) - 1, store |-> store,
                           raised |-> FALSE, macro |-> FALSE])
        ELSE IF EntersMacro /\ ~m.panic
        THEN Append(seen, [height |-> Len(program), store |-> store,
                           raised |-> FALSE, macro |-> TRUE])
        ELSE seen

Commit(m) ==
    /\ wound' = Recorded(m)
    /\ entered' = Entered(m)
    /\ program' = m.program
    /\ store' = m.store
    /\ params' = m.params
    /\ result' = m.result
    /\ pc' = IF m.panic THEN "panic" ELSE "run"
    /\ UNCHANGED input

Running == pc = "run" /\ program # <<>>

\* the Pair arm also leaving the popped Pair in result
pair_arm_sets_result(m, top) ==
    Push(Push([m EXCEPT !.result = top], Prepare(top.tail.src, top.tail)), top.head)

pair_arm(m, top) ==
    Push(Push(m, Prepare(top.tail.src, top.tail)), top.head)

parameterize_arm(m) ==
    IF m.params # <<>>
    THEN [m EXCEPT !.params[Len(m.params)] = Append(@, m.result)]
    ELSE unwind_with_error_message(
             <<"Error during parameterization: the parameter stack is nonexistent">>, m)

RECURSIVE ArgumentWork(_)
ArgumentWork(v) ==
    IF v = <<>> THEN <<>> ELSE <<Parameterize, Head(v)>> \o ArgumentWork(Tail(v))

prepare_function(m, arguments) ==
    Extend(Push([m EXCEPT !.params = Append(@, <<>>)], Call(m.result.src, m.result)),
           ArgumentWork(collect_pair_into_vec(arguments)))

\* the native called with a frame pushed for it
prepare_macro_builtin_pushes_frame(m, arguments) ==
    Transfer(m.result.native, [m EXCEPT !.result = arguments, !.params = Append(@, <<>>)])

prepare_macro_builtin(m, arguments) ==
    Transfer(m.result.native, [m EXCEPT !.result = arguments])

\* the Evaluate marker pushed above the Deparameterize marker
prepare_macro_library_evaluates_first(m, arguments) ==
    LET bound == m.result.bound
        code  == m.result.code
        tco   == optimize_tail_call(m, <<bound>>)
    IN  IF tco.m.panic THEN tco.m
        ELSE Extend(Push(Push([tco.m EXCEPT !.store = Bind(@, bound, arguments)],
                              Deparameterize(tco.names)),
                         Evaluate),
                    code)

prepare_macro_library(m, arguments) ==
    LET bound == m.result.bound
        code  == m.result.code
        tco   == optimize_tail_call(Push(m, Evaluate), <<bound>>)
    IN  IF tco.m.panic THEN tco.m
        ELSE Extend(Push([tco.m EXCEPT !.store = Bind(@, bound, arguments)],
                         Deparameterize(tco.names)),
                    code)

\* a frame pushed for the call before the kind of result is looked at
prepare_arm_frames_first(m, top) ==
    IF m.result.kind = "Function" THEN prepare_function(m, top.args)
    ELSE IF m.result.kind = "Macro" /\ m.result.origin = "Builtin"
    THEN prepare_macro_builtin(m, top.args)
    ELSE IF m.result.kind = "Macro" THEN prepare_macro_library(m, top.args)
    ELSE unwind_with_error_message(
             <<"Error during prepare routine: element not callable">>,
             [m EXCEPT !.params = Append(@, <<>>)])

prepare_arm(m, top) ==
    IF m.result.kind = "Function" THEN prepare_function(m, top.args)
    ELSE IF m.result.kind = "Macro" /\ m.result.origin = "Builtin"
    THEN prepare_macro_builtin(m, top.args)
    ELSE IF m.result.kind = "Macro" THEN prepare_macro_library(m, top.args)
    ELSE unwind_with_error_message(
             <<"Error during prepare routine: element not callable">>, m)

call_builtin(m, statement) ==
    LET after == Transfer(statement.native, m)
    IN  IF after.panic THEN after
        ELSE IF after.params # <<>> THEN [after EXCEPT !.params = Front(@)]
        ELSE unwind_with_error_message(
                 <<"during builtin function call: parameter stack not poppable">>,
                 after)

RECURSIVE BindAll(_, _, _)
BindAll(map, parameters, arguments) ==
    IF parameters = <<>> THEN map
    ELSE BindAll(Bind(map, Head(parameters), Head(arguments)),
                 Tail(parameters), Tail(arguments))

\* the Call of a library function that leaves the frame of a mismatched call
\* on params
call_library_keeps_frame(m, statement) ==
    IF m.params = <<>>
    THEN unwind_with_error_message(
             <<"during library function call: parameter stack empty">>, m)
    ELSE LET arguments == Last(m.params)
             popped == [m EXCEPT !.params = Front(@)]
         IN  IF Len(arguments) # Len(statement.parameters)
             THEN unwind_with_error_message(
                      <<"during library function call: ", "arity mismatch">>, m)
             ELSE LET tco == optimize_tail_call(popped, statement.parameters)
                  IN  IF tco.m.panic THEN tco.m
                      ELSE Extend(Push([tco.m EXCEPT !.store =
                                           BindAll(@, statement.parameters, arguments)],
                                       Deparameterize(tco.names)),
                                  statement.code)

call_library(m, statement) ==
    IF m.params = <<>>
    THEN unwind_with_error_message(
             <<"during library function call: parameter stack empty">>, m)
    ELSE LET arguments == Last(m.params)
             popped == [m EXCEPT !.params = Front(@)]
         IN  IF Len(arguments) # Len(statement.parameters)
             THEN unwind_with_error_message(
                      <<"during library function call: ", "arity mismatch">>, popped)
             ELSE LET tco == optimize_tail_call(popped, statement.parameters)
                  IN  IF tco.m.panic THEN tco.m
                      ELSE Extend(Push([tco.m EXCEPT !.store =
                                           BindAll(@, statement.parameters, arguments)],
                                       Deparameterize(tco.names)),
                                  statement.code)

call_arm(m, top) ==
    IF top.callee.kind = "Function" /\ top.callee.origin = "Builtin"
    THEN call_builtin(m, top.callee)
    ELSE IF top.callee.kind = "Function" THEN call_library(m, top.callee)
    ELSE unwind_with_error_message(<<"calling: Element not recognized as callable">>, m)

if_arm(m, top) ==
    IF m.result.kind = "Null" THEN Push(m, top.second) ELSE Push(m, top.first)

\* the Symbol arm reading a name without an entry as Null
symbol_arm_unbound_as_null(m, top) ==
    LET number == parse_bytes(top.sym)
    IN  IF number.some THEN [m EXCEPT !.result = Integer(top.src, number.value)]
        ELSE IF top.sym \in DOMAIN m.store /\ m.store[top.sym] # <<>>
        THEN [m EXCEPT !.result = Last(m.store[top.sym])]
        ELSE [m EXCEPT !.result = Null(NoSource)]

\* the Symbol arm looking the name up before reading it as a number
symbol_arm_store_first(m, top) ==
    LET number == parse_bytes(top.sym)
    IN  IF top.sym \in DOMAIN m.store /\ m.store[top.sym] # <<>>
        THEN [m EXCEPT !.result = Last(m.store[top.sym])]
        ELSE IF number.some THEN [m EXCEPT !.result = Integer(top.src, number.value)]
        ELSE unwind_with_error_message(
                 <<"variable ">> \o top.sym \o <<" ", "does not exist">>, m)

\* the messages are kept without the quotation marks around the name
symbol_arm(m, top) ==
    LET number == parse_bytes(top.sym)
        prefix == IF top.src # NoSource THEN SourceText(top.src) \o <<" => ">> ELSE <<>>
    IN  IF number.some THEN [m EXCEPT !.result = Integer(top.src, number.value)]
        ELSE IF top.sym \in DOMAIN m.store
        THEN IF m.store[top.sym] # <<>>
             THEN [m EXCEPT !.result = Last(m.store[top.sym])]
             ELSE unwind_with_error_message(
                      (IF top.src # NoSource THEN prefix ELSE <<"_ ">>)
                      \o <<"variable ">> \o top.sym
                      \o <<" ", "does exist but its stack is empty">>, m)
        ELSE unwind_with_error_message(
                 prefix \o <<"variable ">> \o top.sym \o <<" ", "does not exist">>, m)

EvalPair == Running /\ Top.kind = "Pair" /\ Commit(pair_arm(Popped, Top))

EvalWind == Running /\ IsCmd(Top, "Wind") /\ Commit(Popped)

EvalParameterize ==
    Running /\ IsCmd(Top, "Parameterize") /\ Commit(parameterize_arm(Popped))

EvalPrepare == Running /\ IsCmd(Top, "Prepare") /\ Commit(prepare_arm(Popped, Top))

EvalEvaluate == Running /\ IsCmd(Top, "Evaluate") /\ Commit(Push(Popped, result))

EvalCall == Running /\ IsCmd(Top, "Call") /\ Commit(call_arm(Popped, Top))

EvalIf == Running /\ IsCmd(Top, "If") /\ Commit(if_arm(Popped, Top))

EvalDeparameterize ==
    Running /\ IsCmd(Top, "Deparameterize") /\ Commit(pop_parameters(Popped, Top.names))

EvalSymbol == Running /\ Top.kind = "Symbol" /\ Commit(symbol_arm(Popped, Top))

EvalOther ==
    /\ Running
    /\ Top.kind \notin {"Pair", "Internal", "Symbol"}
    /\ Commit([Popped EXCEPT !.result = Top])

\* the loop ends when the program is empty; eval returns env
Return ==
    /\ pc = "run"
    /\ program = <<>>
    /\ pc' = "done"
    /\ UNCHANGED <<input, program, store, params, result, wound, entered>>

Next ==
    \/ EvalPair
    \/ EvalWind
    \/ EvalParameterize
    \/ EvalPrepare
    \/ EvalEvaluate
    \/ EvalCall
    \/ EvalIf
    \/ EvalDeparameterize
    \/ EvalSymbol
    \/ EvalOther
    \/ Return

Spec == Init /\ [][Next]_vars

\* the while loop of eval takes its next step as long as the program is not
\* empty, and returns when it is
FairSpec == Spec /\ WF_vars(Next)

(***************************************************************************)
(* The second revision of eval (src/src/interpret.rs).  Its natives return *)
(* Option<String>, the Call and Deparameterize markers carry the source of *)
(* the call, and the program is popped as the parser delivers it.          *)
(***************************************************************************)
None == [some |-> FALSE, value |-> <<>>]

Some(value) == [some |-> TRUE, value |-> value]

\* a native of this revision: the work of the native, or the message it
\* returns where it cannot be applied to its arguments (the work stack and
\* the environment are then left as they were); unwind itself returns no
\* message
transfer_b(native, m) ==
    LET after == Transfer(native, m)
        raised == /\ native \in {"not", "error", "eval_expose"}
                  /\ Len(after.program) > Len(m.program)
                  /\ Last(after.program) = make_unwind
    IN  IF native = "unwind" THEN [m |-> after, error |-> None]
        ELSE IF after.panic \/ raised
        THEN [m |-> m, error |-> Some(<<native, ": ", "arity mismatch">>)]
        ELSE [m |-> after, error |-> None]

\* trace reports the work stack and leaves the machine as it is
trace(m) == m

call_builtin_b(m, top) ==
    LET ran == transfer_b(top.callee.native, m)
        popped == IF ran.m.params # <<>> THEN [ran.m EXCEPT !.params = Front(@)]
                  ELSE unwind_with_error_message(
                           <<"during builtin function call: parameter stack not poppable">>,
                           ran.m)
    IN  IF ran.error.some /\ top.src # NoSource
        THEN unwind_with_error_message(
                 ran.error.value \o <<" <= ">> \o SourceText(top.src), trace(popped))
        ELSE popped

call_library_b(m, top) ==
    IF m.params = <<>>
    THEN unwind_with_error_message(
             <<"during library function call: parameter stack empty">>, m)
    ELSE LET arguments == Last(m.params)
             popped == [m EXCEPT !.params = Front(@)]
             parameters == top.callee.parameters
         IN  IF Len(arguments) # Len(parameters)
             THEN unwind_with_error_message(
                      <<"during library function call: ", "arity mismatch">>, popped)
             ELSE LET tco == optimize_tail_call(popped, parameters)
                  IN  IF tco.m.panic THEN tco.m
                      ELSE Extend(Push([tco.m EXCEPT !.store =
                                           BindAll(@, parameters, arguments)],
                                       [Deparameterize(tco.names) EXCEPT !.src = top.src]),
                                  top.callee.code)

call_arm_b(m, top) ==
    IF top.callee.kind = "Function" /\ top.callee.origin = "Builtin"
    THEN call_builtin_b(m, top)
    ELSE IF top.callee.kind = "Function" THEN call_library_b(m, top)
    ELSE unwind_with_error_message(<<"calling: Element not recognized as callable">>, m)

if_arm_b(m, top) ==
    IF m.result.kind = "Boolean" /\ m.result.bool = FALSE
    THEN Push(m, top.second) ELSE Push(m, top.first)

prepare_function_b(m, top) ==
    Extend(Push([m EXCEPT !.params = Append(@, <<>>)], Call(top.src, m.result)),
           ArgumentWork(collect_pair_into_vec(top.args)))

prepare_macro_builtin_b(m, top) ==
    transfer_b(m.result.native, [m EXCEPT !.result = top.args]).m

prepare_macro_library_b(m, top) ==
    LET bound == m.result.bound
        code  == m.result.code
        tco   == optimize_tail_call(Push(m, Evaluate), <<bound>>)
    IN  IF tco.m.panic THEN tco.m
        ELSE Extend(Push([tco.m EXCEPT !.store = Bind(@, bound, top.args)],
                         [Deparameterize(tco.names) EXCEPT !.src = top.src]),
                    code)

\* {:?} of the Option<Source>
DebugSource(src) ==
    IF src = NoSource THEN <<"None">> ELSE <<"Some(">> \o SourceText(src) \o <<")">>

prepare_arm_b(m, top) ==
    IF m.result.kind = "Function" THEN prepare_function_b(m, top)
    ELSE IF m.result.kind = "Macro" /\ m.result.origin = "Builtin"
    THEN prepare_macro_builtin_b(m, top)
    ELSE IF m.result.kind = "Macro" THEN prepare_macro_library_b(m, top)
    ELSE unwind_with_error_message(
             <<"Error during prepare routine: element not callable => ">>
             \o DebugSource(top.src), m)

pair_arm_b(m, top) ==
    Push(Push(m, Prepare(top.head.src, top.tail)), top.head)

\* the messages are kept without the quotation marks around the name
symbol_arm_b(m, top) ==
    LET number == parse_bytes(top.sym)
        suffix == IF top.src # NoSource THEN <<" => ">> \o SourceText(top.src) ELSE <<>>
    IN  IF number.some THEN [m EXCEPT !.result = Integer(top.src, number.value)]
        ELSE IF top.sym \in DOMAIN m.store
        THEN IF m.store[top.sym] # <<>>
             THEN [m EXCEPT !.result = Last(m.store[top.sym])]
             ELSE unwind_with_error_message(
                      top.sym \o <<" ", "does exist but its stack is empty">> \o suffix, m)
        ELSE unwind_with_error_message(
                 top.sym \o <<" ", "does not exist">> \o suffix, m)

InitB ==
    /\ input \in {parse_string(t) : t \in Sources}
    /\ program = Reverse(input)
    /\ store = initialize_environment_with_standard_library.store
    /\ params = initialize_environment_with_standard_library.params
    /\ result = initialize_environment_with_standard_library.result
    /\ pc = "run"
    /\ wound = <<>>
    /\ entered = <<>>

EvalCallB == Running /\ IsCmd(Top, "Call") /\ Commit(call_arm_b(Popped, Top))

EvalDeparameterizeB ==
    Running /\ IsCmd(Top, "Deparameterize") /\ Commit(pop_parameters(Popped, Top.names))

EvalEvaluateB == Running /\ IsCmd(Top, "Evaluate") /\ Commit(Push(Popped, result))

EvalIfB == Running /\ IsCmd(Top, "If") /\ Commit(if_arm_b(Popped, Top))

EvalParameterizeB ==
    Running /\ IsCmd(Top, "Parameterize") /\ Commit(parameterize_arm(Popped))

EvalPrepareB == Running /\ IsCmd(Top, "Prepare") /\ Commit(prepare_arm_b(Popped, Top))

EvalWindB == Running /\ IsCmd(Top, "Wind") /\ Commit(Popped)

EvalPairB == Running /\ Top.kind = "Pair" /\ Commit(pair_arm_b(Popped, Top))

EvalSymbolB == Running /\ Top.kind = "Symbol" /\ Commit(symbol_arm_b(Popped, Top))

EvalOtherB ==
    /\ Running
    /\ Top.kind \notin {"Pair", "Internal", "Symbol"}
    /\ Commit([Popped EXCEPT !.result = Top])

ReturnB ==
    /\ pc = "run"
    /\ program = <<>>
    /\ pc' = "done"
    /\ UNCHANGED <<input, program, store, params, result, wound, entered>>

NextB ==
    \/ EvalCallB
    \/ EvalDeparameterizeB
    \/ EvalEvaluateB
    \/ EvalIfB
    \/ EvalParameterizeB
    \/ EvalPrepareB
    \/ EvalWindB
    \/ EvalPairB
    \/ EvalSymbolB
    \/ EvalOtherB
    \/ ReturnB

SpecB == InitB /\ [][NextB]_vars

(***************************************************************************)
(* Properties.                                                             *)
(***************************************************************************)
RECURSIVE SumTuple(_)
SumTuple(t) == IF t = <<>> THEN 0 ELSE Head(t) + SumTuple(Tail(t))

\* the programs of each family, parsed once
FormCases == {[fs |-> fs, parsed |-> parse_string(Text(FormsWords(fs)))] : fs \in FormSeqs}

PlusCases ==
    {[args |-> args, parsed |-> parse_string(Text(PlusForm(args)))] : args \in PlusArgs}

\* C1: a program of k >= 1 calls of + is evaluated form by form in source
\* order: whenever exactly the forms j+1..k are left on the work stack (the
\* next one on top), result is the value of form j; so eval, which never
\* panics here, returns the value of the last form only.
C1_LastFormOnly ==
    \A c \in FormCases :
        input = c.parsed =>
            /\ pc # "panic"
            /\ \A j \in 1..Len(c.fs) :
                   program = Reverse(SubSeq(input, j + 1, Len(c.fs))) =>
                       /\ result = Integer(NoSource, SumTuple(c.fs[j]))
                       /\ params = <<>>

\* the doctest program has returned with Integer 3, not 7
C1_Witness ==
    /\ input = parse_string(Text(DoctestWords))
    /\ pc = "done"
    /\ result = Integer(NoSource, 3)

\* C2: a call of + on n literals, n in 0..MaxArgs, returns their Integer sum
\* (0 for no argument) and never panics.
C2_PlusSums ==
    \A c \in PlusCases :
        input = c.parsed =>
            /\ pc # "panic"
            /\ pc = "done" => result = Integer(NoSource, SumTuple(c.args))

\* ( + ) has returned 0 and a call of + on MaxArgs literals has returned
C2_Witness ==
    /\ pc = "done"
    /\ \E c \in PlusCases :
           /\ input = c.parsed
           /\ \/ c.args = <<>> /\ result = Integer(NoSource, 0)
              \/ /\ Len(c.args) = MaxArgs
                 /\ result = Integer(NoSource, SumTuple(c.args))
                 /\ result.int > 0

LoopCases == {[run |-> r, parsed |-> parse_string(Text(LoopWords(r)))] : r \in LoopRuns}

LoopCase(shape, n) ==
    \E c \in LoopCases : c.run = [shape |-> shape, n |-> n] /\ input = c.parsed

Depth(name) == IF name \in DOMAIN store THEN Len(store[name]) ELSE 0

\* the Deparameterize markers pending on the work stack
Markers == {i \in 1..Len(program) : IsCmd(program[i], "Deparameterize")}

RECURSIVE SumOver(_, _)
SumOver(S, f) ==
    IF S = {} THEN 0
    ELSE LET x == CHOOSE y \in S : TRUE IN f[x] + SumOver(S \ {x}, f)

\* how many bindings of a name the pending markers will still remove
PendingTeardowns(name) ==
    SumOver(Markers, [i \in Markers |-> Occurrences(program[i].names, name)])

\* the body of the function bound to a name has just been pushed by its Call
BodyEntered(fname) ==
    /\ Running
    /\ fname \in DOMAIN store
    /\ store[fname] # <<>>
    /\ Last(store[fname]).kind = "Function"
    /\ Last(store[fname]).origin = "Library"
    /\ Top = Last(Last(store[fname]).code)

\* a Call of a library function with a Deparameterize marker right below it
TailCallStep ==
    /\ Running
    /\ IsCmd(Top, "Call")
    /\ Top.callee.kind = "Function"
    /\ Top.callee.origin = "Library"
    /\ Len(program) >= 2
    /\ IsCmd(program[Len(program) - 1], "Deparameterize")

LoopParameters(r) == IF r.shape = "two" THEN {w_a, w_b} ELSE {w_n}

\* the depth of the parameter names before the loop is called: outer's n is
\* bound when outer calls loop
PreCallDepth(r) == IF r.shape = "nested" THEN 1 ELSE 0

\* the work stack below the frame of the loop: in outer, its marker and the
\* pending call of + with its second argument
BaseDepth(r) == IF r.shape = "nested" THEN 5 ELSE 0

C4_StackDoesNotGrow ==
    \A c \in LoopCases :
        input = c.parsed =>
            /\ pc # "panic"
            /\ Cardinality(Markers) <= PreCallDepth(c.run) + 1
            /\ TailCallStep => Len(program) = BaseDepth(c.run) + 2

\* the last tail call of a chain of MaxIter calls between even and odd
C4_Witness ==
    /\ LoopCase("mutual", MaxIter)
    /\ TailCallStep
    /\ Last(params) = <<Integer(NoSource, 0)>>
    /\ Cardinality(Markers) = 1

ErrorCases == {[run |-> r, parsed |-> parse_string(Text(ErrorWords(r)))] : r \in ErrorRuns}

ErrorCase(raise, ctx) ==
    \E c \in ErrorCases : c.run = [raise |-> raise, ctx |-> ctx] /\ input = c.parsed

\* the inputs of the error programs with the given raising forms and contexts
ErrorInputs(raises, ctxs) ==
    {c.parsed : c \in {e \in ErrorCases : e.run.raise \in raises /\ e.run.ctx \in ctxs}}

\* an Error node whose String payload says that a variable does not exist
IsUnbound(node) ==
    /\ node.kind = "Error"
    /\ node.err.kind = "String"
    /\ ContainsText(node.err.str, <<"does not exist">>)

\* the programs that evaluate the unbound symbol foo, in every context
UnboundInputs == ErrorInputs({"unbound", "symbol"}, Contexts)

\* those in which nothing is evaluated after the error
UnboundLastInputs ==
    ErrorInputs({"unbound", "symbol"}, PlainContexts \cup {"wind", "windfn"})

\* C5: a program that evaluates a symbol that is no integer literal and has
\* no store entry never panics and eval returns; when nothing is evaluated
\* after the error, the final result is an Error whose String payload
\* contains "does not exist".
C5_UnboundSymbol ==
    /\ (input \in UnboundInputs) => ([](pc # "panic") /\ <>(pc = "done"))
    /\ (input \in UnboundLastInputs) => <>(pc = "done" /\ IsUnbound(result))

\* ( foo ) has returned with the Error
C5_Witness ==
    /\ input = parse_string(Text(CallForm(w_foo, <<>>)))
    /\ pc = "done"
    /\ IsUnbound(result)
    /\ params = <<>>

\* an unwind call is on top of the work stack: an error has been raised
Raised == Running /\ Top = make_unwind

\* the topmost Wind marker of a work stack that holds one
TopWind(p) == CHOOSE i \in WindMarkers(p) : \A j \in WindMarkers(p) : j <= i

\* a step that consumes a Wind marker: control resumes after it
WindConsumed == Cardinality(WindMarkers(program')) < Cardinality(WindMarkers(program))

\* the programs whose raising form stands in a wind form
WoundInputs == ErrorInputs(Raises, WindContexts)

\* C6: for a wind form whose body raises an error, the evaluation does not
\* panic and, at the step that consumes the Wind marker, result is an Error
\* node and store is the store of the moment the marker was pushed.
C6_WindRestores ==
    /\ [](input \in WoundInputs => pc # "panic")
    /\ [][(input \in WoundInputs /\ WindConsumed) =>
             /\ result'.kind = "Error"
             /\ store' = Last(wound).store]_vars

\* the Error of a Call of a library function with the wrong number of
\* arguments
ArityError ==
    Error(NoSource, String(NoSource, <<"during library function call: ", "arity mismatch">>))

\* the errors of a parameter stack found empty
InternalErrors ==
    {Error(NoSource, String(NoSource, <<t>>)) :
        t \in {"during builtin function call: parameter stack not poppable",
               "during library function call: parameter stack empty",
               "Error during parameterization: the parameter stack is nonexistent"}}

\* the Call of a library function with a frame of another length than its
\* parameter list is on top
ArityMismatchStep ==
    /\ Running
    /\ IsCmd(Top, "Call")
    /\ Top.callee.kind = "Function"
    /\ Top.callee.origin = "Library"
    /\ params # <<>>
    /\ Len(Last(params)) # Len(Top.callee.parameters)

ArityCases == {[run |-> r, parsed |-> parse_string(Text(ArityWords(r)))] : r \in ArityRuns}

ArityInputs == {c.parsed : c \in ArityCases} \cup ErrorInputs({"arity"}, Contexts)

\* C7: the Call of a library function with a number of arguments other than
\* its number of parameters leaves store and result as they are, removes
\* the frame of the call and raises the arity-mismatch Error through an
\* unwind call, whose step makes it the result; no such program panics or
\* ever holds an error of an empty parameter stack, and a program calling
\* f = (fn (a b) a) returns the Error unless it passes two arguments.
C7_ArityMismatch ==
    /\ [][ArityMismatchStep =>
             /\ store' = store
             /\ result' = result
             /\ params' = Append(Front(params), <<ArityError>>)
             /\ program' = Append(Front(program), make_unwind)
             /\ pc' = "run"]_vars
    /\ [][(Raised /\ params # <<>> /\ Last(params) = <<ArityError>>) =>
             /\ result' = ArityError
             /\ Len(params') < Len(params)
             /\ pc' = "run"]_vars
    /\ [](input \in ArityInputs => (pc # "panic" /\ result \notin InternalErrors))
    /\ [](\A c \in ArityCases :
              (input = c.parsed /\ pc = "done") =>
                  /\ params = <<>>
                  /\ w_a \notin DOMAIN store /\ w_b \notin DOMAIN store
                  /\ IF c.run.args = 2
                     THEN result.kind = "Integer" /\ result.int = 1
                     ELSE result = ArityError)

\* g has called f with one argument in tail position: the Error is the
\* final result and the binding of g's parameter is gone
C7_Witness ==
    /\ \E c \in ArityCases : c.run = [args |-> 1, tail |-> TRUE] /\ input = c.parsed
    /\ pc = "done"
    /\ result = ArityError
    /\ params = <<>>
    /\ w_a \notin DOMAIN store

PairCases == {[run |-> r, parsed |-> parse_string(Text(PairWords(r)))] : r \in PairRuns}

\* the value of a data form: a literal is the Integer at its place in the
\* source, () is itself, ( pair x y ) is the Pair of the values of x and y
RECURSIVE Denote(_)
Denote(node) ==
    IF node.kind = "Symbol" THEN Integer(node.src, parse_bytes(node.sym).value)
    ELSE IF node.kind = "Pair"
    THEN Pair(NoSource, Denote(node.tail.head), Denote(node.tail.tail.head))
    ELSE node

\* the argument form of the single call ( op D ) of a program
ArgumentForm == input[1].tail.head

\* C8: ( head ( pair D E ) ) returns the value of D and ( tail ( pair D E ) )
\* the value of E, the very nodes the pair was built from; head and tail of
\* a value that is no Pair (an Integer, Null) return Null without source.
C8_HeadTailRoundTrip ==
    \A c \in PairCases :
        input = c.parsed =>
            /\ pc # "panic"
            /\ pc = "done" =>
                   result = IF ArgumentForm.kind # "Pair" THEN Null(NoSource)
                            ELSE IF c.run.op = w_head
                            THEN Denote(ArgumentForm.tail.head)
                            ELSE Denote(ArgumentForm.tail.tail.head)

\* tail of a pair whose head is itself a pair has returned the second node
C8_Witness ==
    /\ pc = "done"
    /\ \E c \in PairCases :
           /\ input = c.parsed
           /\ c.run.op = w_tail
           /\ ArgumentForm.kind = "Pair"
           /\ ArgumentForm.tail.head.kind = "Pair"
           /\ result.kind = "Integer"
           /\ result.int = MaxLit
           /\ result.src # NoSource

\* C9: when an error is raised with no Wind marker on the work stack, the
\* step of the unwind call empties the work stack, does not panic, and
\* leaves an Error node in result with no frame on params: eval returns it.
C9_UncaughtError ==
    [][(Raised /\ WindMarkers(program) = {}) =>
          /\ pc' = "run"
          /\ program' = <<>>
          /\ result'.kind = "Error"
          /\ params' = <<>>]_vars

\* C10: when an error is raised with a Wind marker on the work stack, the
\* step of the unwind call removes the topmost Wind marker and all above it,
\* leaves the items below as they are, does not panic, and leaves an Error
\* node in result.
C10_CaughtError ==
    [][(Raised /\ WindMarkers(program) # {}) =>
          /\ pc' = "run"
          /\ program' = SubSeq(program, 1, TopWind(program) - 1)
          /\ result'.kind = "Error"]_vars

\* C11: an error raised while Wind markers are pending is stopped by the
\* topmost one only: the step of the unwind call does not panic and removes
\* that marker and no other, so every outer marker is still pending for a
\* later error.
C11_NearestWindOnly ==
    [][(Raised /\ WindMarkers(program) # {}) =>
          /\ pc' = "run"
          /\ WindMarkers(program') = WindMarkers(program) \ {TopWind(program)}]_vars

\* the Call markers pending on the work stack
CallMarkers == {i \in 1..Len(program) : IsCmd(program[i], "Call")}

\* C12: between two steps of eval the depth of params is the number of Call
\* markers pending on the work stack, and params is empty when eval
\* returns.
C12_FramePerCall ==
    /\ pc = "run" => Len(params) = Cardinality(CallMarkers)
    /\ pc = "done" => params = <<>>

\* the names of the initial environment
LibraryNames == DOMAIN initialize_environment_with_standard_library.store

\* the names the top-level forms ( define name value ) of the input define
TopLevelNames ==
    {input[i].tail.head.sym :
        i \in {j \in 1..Len(input) :
                  /\ input[j].kind = "Pair"
                  /\ input[j].head = Symbol(input[j].head.src, w_define)
                  /\ input[j].tail.kind = "Pair"
                  /\ input[j].tail.head.kind = "Symbol"}}

\* the names listed by the pending Deparameterize markers
MarkerNames == UNION {{program[i].names[k] : k \in 1..Len(program[i].names)} : i \in Markers}

\* the depth a name has without any live binding: one for a name of the
\* initial environment, one for a top-level definition once it is made
BaseDepths(name) ==
    IF name \in LibraryNames THEN {1}
    ELSE IF name \in TopLevelNames THEN {0, 1}
    ELSE {0}

\* C13: between two steps, and when eval returns, every name has its base
\* depth plus one binding for each of its occurrences in the pending
\* Deparameterize markers.
C13_StoreDepth ==
    pc # "panic" =>
        \A name \in (DOMAIN store) \cup MarkerNames :
            Depth(name) - PendingTeardowns(name) \in BaseDepths(name)

\* C14 as stated: result never holds a node of kind Pair.
C14_NoPairResult == result.kind # "Pair"

\* C14 amended: the loop never makes a Pair it pops the result. A step that
\* puts a Pair into result is a Call (the value of a builtin such as pair,
\* head or tail), a Symbol lookup (the binding of the name) or a Prepare
\* (the unevaluated argument list handed to a builtin macro); the step that
\* pops a Pair leaves result as it is.
C14_PairOnlyAsValue ==
    /\ [][(result' # result /\ result'.kind = "Pair") =>
             /\ Running
             /\ IsCmd(Top, "Call") \/ IsCmd(Top, "Prepare") \/ Top.kind = "Symbol"]_vars
    /\ [][(Running /\ Top.kind = "Pair") => result' = result]_vars

\* head of a pair whose first node is a pair has returned that Pair
C14_Witness ==
    /\ pc = "done"
    /\ result.kind = "Pair"
    /\ \E c \in PairCases :
           /\ input = c.parsed
           /\ c.run.op = w_head
           /\ result = Denote(ArgumentForm.tail.head)

\* a Parameterize marker is popped while params is empty
ParameterizeOnEmpty == Running /\ IsCmd(Top, "Parameterize") /\ params = <<>>

\* C15: when Parameterize is popped while params is empty the evaluation
\* aborts: the loop does not go on to a next step.
C15_ParameterizeAborts == [][ParameterizeOnEmpty => pc' # "run"]_vars

LiteralCases ==
    {[run |-> r, parsed |-> parse_string(Text(LiteralWords(r)))] : r \in LiteralRuns}

\* a Symbol whose text reads as an integer is on top while store holds a
\* binding under that very text
ShadowedLiteral ==
    /\ Running
    /\ Top.kind = "Symbol"
    /\ Top.sym \in {Lit(n) : n \in (0 - 1)..MaxLit}
    /\ Top.sym \in DOMAIN store

\* C16: a Symbol whose text reads as an integer n evaluates to Integer n at
\* the symbol's place in the source also when store holds a binding under
\* that text; the step changes nothing but result and the popped node, the
\* binding is still there afterwards, and a program that binds 9 to the
\* name n and then evaluates n returns n.
C16_LiteralBeforeLookup ==
    /\ [][ShadowedLiteral =>
             /\ \E n \in (0 - 1)..MaxLit :
                    Top.sym = Lit(n) /\ result' = Integer(Top.src, n)
             /\ store' = store
             /\ params' = params
             /\ program' = Front(program)
             /\ pc' = "run"]_vars
    /\ [](\A c \in LiteralCases :
              (input = c.parsed /\ pc = "done") =>
                  result.kind = "Integer" /\ result.int = c.run.n)

\* (define 2 9) 2 has returned 2 with 9 bound to the name
C16_Witness ==
    /\ \E c \in LiteralCases :
           c.run = [n |-> MaxLit, shape |-> "define"] /\ input = c.parsed
    /\ pc = "done"
    /\ Lit(MaxLit) \in DOMAIN store
    /\ Last(store[Lit(MaxLit)]).int = 9
    /\ result.int = MaxLit

IfStep == Running /\ IsCmd(Top, "If")

IsFalse(node) == node.kind = "Boolean" /\ node.bool = FALSE

\* C17: the step of an If(then, else) marker replaces the marker by else
\* exactly when result is the boolean false, and by then for every other
\* result, Null included.
C17_OnlyFalseIsFalsy ==
    [][IfStep =>
          program' = Append(Front(program),
                            IF IsFalse(result) THEN Top.second ELSE Top.first)]_vars

\* a Call of a builtin function whose native returns an error message
SignalStep ==
    /\ Running
    /\ IsCmd(Top, "Call")
    /\ Top.callee.kind = "Function"
    /\ Top.callee.origin = "Builtin"
    /\ transfer_b(Top.callee.native, Popped).error.some

\* C18: a Call step whose native returns an error message leaves an unwind
\* call on top of the work stack with an Error carrying that message in the
\* top frame of params, with or without a source on the Call marker.
C18_SignalledErrorUnwinds ==
    [][SignalStep =>
          /\ pc' = "run"
          /\ program' # <<>>
          /\ Last(program') = make_unwind
          /\ params' # <<>>
          /\ Last(params') # <<>>
          /\ Last(Last(params')).kind = "Error"
          /\ ContainsText(Last(Last(params')).err.str,
                          transfer_b(Top.callee.native, Popped).error.value)]_vars

\* a Prepare that dispatches a library macro with a Deparameterize marker
\* right below it
MacroTailStep ==
    /\ Running
    /\ IsCmd(Top, "Prepare")
    /\ result.kind = "Macro"
    /\ result.origin = "Library"
    /\ Len(program) >= 2
    /\ IsCmd(program[Len(program) - 1], "Deparameterize")

\* C19: the Prepare of a library macro with a Deparameterize(existing)
\* marker right below it consumes that marker: after the step the work stack
\* holds no more Deparameterize markers than before, and the marker pushed by
\* the step lists the bound name and the names of existing.
C19_MacroTailMerges ==
    [][MacroTailStep =>
          /\ Cardinality({i \in 1..Len(program') : IsCmd(program'[i], "Deparameterize")})
                 = Cardinality(Markers)
          /\ \E i \in 1..Len(program') :
                 /\ IsCmd(program'[i], "Deparameterize")
                 /\ Contains(program'[i].names, result.bound)
                 /\ \A n \in 1..Len(program[Len(program) - 1].names) :
                        Contains(program'[i].names,
                                 program[Len(program) - 1].names[n])]_vars

\* the names of a list that do not occur in another, in the order of the list
NotIn(names, others) == SelectSeq(names, LAMBDA n : ~Contains(others, n))

\* a tail call of a library function with as many arguments as parameters
MergeStep ==
    /\ TailCallStep
    /\ params # <<>>
    /\ Len(Last(params)) = Len(Top.callee.parameters)

\* what optimize_tail_call returns when the Call arm calls it here
Merged == optimize_tail_call([Popped EXCEPT !.params = Front(@)], Top.callee.parameters)

MergeCase(r) == input = parse_string(Text(MergeWords(r)))

\* C20: called with Deparameterize(existing) on top of the work stack,
\* optimize_tail_call pops the marker, pops one binding per occurrence in
\* new-names of a name that occurs in existing, leaves every other binding
\* stack, params and result as they are, and returns the names of new-names
\* not in existing followed by the names of existing; the Call step pushes
\* one marker with the returned names in place of the popped one.
C20_MergeWithMarker ==
    /\ [](MergeStep =>
            LET new == Top.callee.parameters
                existing == program[Len(program) - 1].names
            IN  /\ ~Merged.m.panic
                /\ Merged.m.program = SubSeq(program, 1, Len(program) - 2)
                /\ Merged.names = NotIn(new, existing) \o existing
                /\ Merged.m.params = Front(params)
                /\ Merged.m.result = result
                /\ DOMAIN Merged.m.store = DOMAIN store
                /\ \A name \in DOMAIN store :
                       Merged.m.store[name] =
                           SubSeq(store[name], 1,
                                  Len(store[name])
                                  - (IF Contains(existing, name)
                                     THEN Occurrences(new, name) ELSE 0)))
    /\ [][MergeStep =>
             LET new == Top.callee.parameters
                 existing == program[Len(program) - 1].names
             IN  program' = SubSeq(program, 1, Len(program) - 2)
                            \o <<Deparameterize(NotIn(new, existing) \o existing)>>
                            \o Top.callee.code]_vars

\* f of (a b) has tail-called g of (b c): one marker lists c, a, b, and the
\* b of f has made room for the b of g
C20_Witness ==
    /\ MergeCase("partial")
    /\ Running
    /\ Cardinality(Markers) = 1
    /\ \A i \in Markers : program[i].names = <<w_c, w_a, w_b>>
    /\ Depth(w_a) = 1
    /\ Depth(w_b) = 1
    /\ Depth(w_c) = 1
    /\ Last(store[w_b]).int = 1
    /\ Last(store[w_c]).int = 2

\* a Call of a library function, with as many arguments as parameters, that
\* has no Deparameterize marker right below it
FreshCallStep ==
    /\ Running
    /\ IsCmd(Top, "Call")
    /\ Top.callee.kind = "Function"
    /\ Top.callee.origin = "Library"
    /\ params # <<>>
    /\ Len(Last(params)) = Len(Top.callee.parameters)
    /\ ~(Len(program) >= 2 /\ IsCmd(program[Len(program) - 1], "Deparameterize"))

\* a Prepare that dispatches a library macro
MacroStep ==
    /\ Running
    /\ IsCmd(Top, "Prepare")
    /\ result.kind = "Macro"
    /\ result.origin = "Library"

\* C21: called with an empty work stack, or with anything but a
\* Deparameterize marker on top, optimize_tail_call returns the work stack,
\* store, params and result it was given and the new names as they are; the
\* Call of a library function and the Prepare of a library macro then push a
\* marker with exactly the new names.
C21_NoMarkerNoChange ==
    /\ [](FreshCallStep =>
            Merged = [m |-> [Popped EXCEPT !.params = Front(@)],
                      names |-> Top.callee.parameters])
    /\ [](MacroStep =>
            optimize_tail_call(Push(Popped, Evaluate), <<result.bound>>)
                = [m |-> Push(Popped, Evaluate), names |-> <<result.bound>>])
    /\ [][FreshCallStep =>
             program' = Front(program)
                        \o <<Deparameterize(Top.callee.parameters)>>
                        \o Top.callee.code]_vars
    /\ [][MacroStep =>
             program' = Front(program)
                        \o <<Evaluate, Deparameterize(<<result.bound>>)>>
                        \o result.code]_vars

\* loop is called from the body of outer, as an argument of +: a
\* Parameterize marker is below the Call
C21_Witness ==
    /\ LoopCase("nested", MaxIter)
    /\ FreshCallStep
    /\ Top.callee.parameters = <<w_n>>
    /\ Len(program) >= 2
    /\ IsCmd(program[Len(program) - 1], "Parameterize")
    /\ Merged.names = <<w_n>>
    /\ Merged.m.program = Front(program)

\* the values of the arguments of the single call ( + a1 ... an ) of a
\* program, in source order: literal ai is the Integer at its place
ExpectedFrame(args) ==
    LET written == CollectHeads(input[1].tail)
    IN  [i \in 1..Len(args) |-> Integer(written[i].src, args[i])]

\* C22: in a call ( + a1 ... an ), n in 0..MaxArgs, the frame of the call
\* always holds the values of a1 .. ak for some k, the argument on top of
\* the work stack is then a(k+1), and when the Call marker is popped the
\* frame holds the n values in source order.
C22_ArgumentsInOrder ==
    \A c \in PlusCases :
        (input = c.parsed /\ pc = "run" /\ params # <<>>) =>
            LET frame == Last(params)
                written == CollectHeads(input[1].tail)
            IN  /\ Len(frame) <= Len(c.args)
                /\ frame = SubSeq(ExpectedFrame(c.args), 1, Len(frame))
                /\ (program # <<>> /\ Top.kind = "Symbol") =>
                       /\ Len(frame) < Len(c.args)
                       /\ Top = written[Len(frame) + 1]
                /\ (program # <<>> /\ IsCmd(Top, "Call")) =>
                       frame = ExpectedFrame(c.args)

\* the Call marker of a call on MaxArgs literals, the first and the last of
\* them different, is on top
C22_Witness ==
    \E c \in PlusCases :
        /\ input = c.parsed
        /\ Len(c.args) = MaxArgs
        /\ c.args[1] # c.args[MaxArgs]
        /\ Running
        /\ IsCmd(Top, "Call")
        /\ Len(Last(params)) = MaxArgs
        /\ Last(params)[1].int = c.args[1]
        /\ Last(params)[MaxArgs].int = c.args[MaxArgs]

PairStep == Running /\ Top.kind = "Pair"

\* C23: the step of a Pair(head, tail) replaces it by Prepare(tail), tagged
\* with the source of head, and head on top of it; result, store and params
\* are unchanged.
C23_PrepareTaggedWithHead ==
    [][PairStep =>
          /\ program' = Front(program) \o <<Prepare(Top.head.src, Top.tail), Top.head>>
          /\ result' = result
          /\ store' = store
          /\ params' = params]_vars

\* a Call of a library function with as many arguments as parameters
LibraryCallStep == MergeStep \/ FreshCallStep

\* the teardown of a call recorded in entered, no unwind having run since
\* the call
BodyCompletes ==
    /\ Running
    /\ IsCmd(Top, "Deparameterize")
    /\ entered # <<>>
    /\ Last(entered).height = Len(program) - 1
    /\ ~Last(entered).macro
    /\ ~Last(entered).raised

\* C24: a Call of a library function with matching arity leaves argument i
\* on top of the bindings of parameter i (of the last parameter of that name
\* where a name is repeated) and the body on top of one Deparameterize
\* marker that lists every parameter; when the teardown of a call runs and
\* no unwind has run since the call, store is again the store from before
\* the Call step.
C24_CallBindsAndRestores ==
    /\ [][LibraryCallStep =>
             LET ps == Top.callee.parameters
                 args == Last(params)
             IN  /\ \A i \in 1..Len(ps) :
                        (\A j \in (i + 1)..Len(ps) : ps[j] # ps[i]) =>
                            /\ ps[i] \in DOMAIN store'
                            /\ store'[ps[i]] # <<>>
                            /\ Last(store'[ps[i]]) = args[i]
                 /\ \E k \in 1..Len(program') :
                        /\ IsCmd(program'[k], "Deparameterize")
                        /\ \A i \in 1..Len(ps) : Contains(program'[k].names, ps[i])
                        /\ SubSeq(program', k + 1, Len(program')) = Top.callee.code]_vars
    /\ [][BodyCompletes => store' = Last(entered).store]_vars

DeparameterizeStep == Running /\ IsCmd(Top, "Deparameterize")

\* a store with one binding less per occurrence of a name in the list, and
\* without the entries that are left empty
TornDown(map, names) ==
    LET left(name) == Len(map[name]) - Occurrences(names, name)
        kept == {name \in DOMAIN map : ~Contains(names, name) \/ left(name) > 0}
    IN  [name \in kept |-> SubSeq(map[name], 1, left(name))]

\* C25: the step of a Deparameterize(names) marker pops one binding of each
\* listed name per occurrence in the list, removes the entries left empty,
\* and leaves every other entry, params, result and the rest of the work
\* stack as they are.
C25_TeardownPops ==
    [][DeparameterizeStep =>
          /\ pc' = "run"
          /\ \A i \in 1..Len(Top.names) :
                 /\ Top.names[i] \in DOMAIN store
                 /\ Len(store[Top.names[i]]) >= Occurrences(Top.names, Top.names[i])
          /\ store' = TornDown(store, Top.names)
          /\ params' = params
          /\ result' = result
          /\ program' = Front(program)]_vars

\* an error raised by the evaluator: unwind_with_error_message has pushed a
\* frame holding the Error and the unwind call, and a Wind marker is pending
EvaluatorRaised ==
    /\ Raised
    /\ WindMarkers(program) # {}
    /\ params # <<>>
    /\ Len(Last(params)) = 1
    /\ Last(params)[1].kind = "Error"
    /\ Last(params)[1].src = NoSource
    /\ Last(params)[1].err.kind = "String"
    /\ Last(params)[1].err.src = NoSource

\* C26: when the evaluator raises an error while a Wind marker is pending,
\* the step of the unwind call does not panic and leaves params with as many
\* frames as it had at the moment the topmost Wind marker was pushed: the
\* frame of every call pending inside the wind form and the frame of the
\* error are gone.
C26_UnwindRestoresDepth ==
    [][EvaluatorRaised =>
          /\ pc' = "run"
          /\ Len(params') = Len(Last(wound).params)]_vars

\* a Prepare marker is on top and result holds a builtin macro
MacroBuiltinStep ==
    /\ Running
    /\ IsCmd(Top, "Prepare")
    /\ result.kind = "Macro"
    /\ result.origin = "Builtin"

\* the number of Parameterize markers of a work stack
Parameterizes(p) == Cardinality({i \in 1..Len(p) : IsCmd(p[i], "Parameterize")})

\* C27: the Prepare step of a builtin macro hands the argument list to the
\* native as it is written.  No step but that of define, whose native pushes
\* them itself, adds a frame to params or a Parameterize marker to the work
\* stack; the step of quote leaves the argument list in result and changes
\* nothing else, the step of if pushes the condition, and the branches in
\* its If marker, as they are written, and the step of define pushes the
\* value expression as it is written.
C27_BuiltinMacroUnevaluated ==
    [][MacroBuiltinStep =>
          LET arguments == Top.args
              rest == Front(program)
          IN  /\ result.native # "define" =>
                     /\ params' = params
                     /\ Parameterizes(program') = Parameterizes(program)
              /\ result.native = "quote" =>
                     /\ pc' = "run"
                     /\ result' = arguments
                     /\ program' = rest
                     /\ store' = store
              /\ result.native = "if_conditional" =>
                     program' = rest \o
                         <<If(arguments.tail.head, arguments.tail.tail.head),
                           arguments.head>>
              /\ (result.native = "define" /\ pc' = "run") =>
                     /\ params' = Append(params, <<>>)
                     /\ program' = rest \o
                            <<Call(NoSource, FunctionBuiltin("define_internal")),
                              Parameterize,
                              arguments.tail.head,
                              Parameterize,
                              String(NoSource, arguments.head.sym)>>]_vars

\* ( head ( ' ( foo ) 2 ) ): the step of quote has run while the frame of
\* head is open; result is the list of the form ( foo ) and the symbol 2
C27_Witness ==
    /\ input = parse_string(Text(QuoteWords("arg")))
    /\ pc = "run"
    /\ result = input[1].tail.head.tail
    /\ result.kind = "Pair"
    /\ result.head.kind = "Pair"
    /\ result.tail.head.kind = "Symbol"
    /\ params = <<<<>>>>
    /\ program # <<>>
    /\ IsCmd(Top, "Parameterize")

\* the teardown of a library macro recorded in entered, no unwind having run
\* since its Prepare
MacroCompletes ==
    /\ Running
    /\ IsCmd(Top, "Deparameterize")
    /\ entered # <<>>
    /\ Last(entered).height = Len(program) - 1
    /\ Last(entered).macro
    /\ ~Last(entered).raised

EvaluateStep == Running /\ IsCmd(Top, "Evaluate")

\* the number of bindings of a name in a store
Bindings(map, name) == IF name \in DOMAIN map THEN Len(map[name]) ELSE 0

\* C28: the Prepare of a library macro binds the argument list, as written,
\* to the bound name and leaves the body on top of the Deparameterize marker
\* of that name, which is on top of one Evaluate marker.  When that
\* Deparameterize marker is popped after the body, the binding is removed
\* (the bound name has no more bindings than before the Prepare), result is
\* left as the body set it and the Evaluate marker is on top; the Evaluate
\* step then pushes result once and changes nothing else.
C28_MacroOrder ==
    /\ [][MacroStep =>
             /\ pc' = "run"
             /\ program' = Front(program)
                           \o <<Evaluate, Deparameterize(<<result.bound>>)>>
                           \o result.code
             /\ store' = Bind(store, result.bound, Top.args)
             /\ params' = params
             /\ result' = result]_vars
    /\ [][MacroCompletes =>
             /\ pc' = "run"
             /\ program' = Front(program)
             /\ IsCmd(Last(program'), "Evaluate")
             /\ result' = result
             /\ params' = params
             /\ \A i \in 1..Len(Top.names) :
                    Bindings(store', Top.names[i])
                        <= Bindings(Last(entered).store, Top.names[i])]_vars
    /\ [][EvaluateStep =>
             /\ pc' = "run"
             /\ program' = Front(program) \o <<result>>
             /\ store' = store
             /\ params' = params
             /\ result' = result]_vars

\* ( m ( + 1 2 ) ) with m = ( mo x ( head x ) ): the Evaluate step has pushed
\* the expansion ( + 1 2 ), and x is no longer bound
C28_Witness ==
    /\ input = parse_string(Text(MacroWords))
    /\ pc = "run"
    /\ entered = <<>>
    /\ program # <<>>
    /\ Top = result
    /\ Top = input[2].tail.head
    /\ Top.kind = "Pair"
    /\ w_x \notin DOMAIN store
    /\ w_m \in DOMAIN store

\* the Error of a Prepare that finds no callable in result
NotCallableError ==
    Error(NoSource,
          String(NoSource, <<"Error during prepare routine: element not callable">>))

\* a Prepare marker is on top and result holds neither a function nor a macro
NotCallableStep ==
    /\ Running
    /\ IsCmd(Top, "Prepare")
    /\ result.kind \notin {"Function", "Macro"}

\* the unwind call of that error is on top
NotCallableRaised ==
    /\ Raised
    /\ params # <<>>
    /\ Last(params) = <<NotCallableError>>

\* the Call markers the scan of unwind pops: those above the topmost Wind
\* marker, or all of them, the unwind call itself excluded
ScannedCalls ==
    {i \in CallMarkers :
        /\ i < Len(program)
        /\ WindMarkers(program) # {} => i > TopWind(program)}

\* C29: a Prepare that finds neither a function nor a macro in result pushes
\* the frame of the error and the unwind call and nothing else: no argument
\* is pushed for evaluation and no frame for the call.  The step of the
\* unwind call leaves the Error in result and removes the frame of the error
\* and one frame for each pending call it passes; with no Wind marker
\* pending, the work stack and params are left empty.  A program whose
\* non-callable form is not inside a wind form returns that Error.
C29_NotCallable ==
    /\ [][NotCallableStep =>
             /\ pc' = "run"
             /\ program' = Front(program) \o <<make_unwind>>
             /\ params' = Append(params, <<NotCallableError>>)
             /\ store' = store
             /\ result' = result]_vars
    /\ [][NotCallableRaised =>
             /\ pc' = "run"
             /\ result' = NotCallableError
             /\ Len(params') = Len(params) - 1 - Cardinality(ScannedCalls)
             /\ WindMarkers(program) = {} => (program' = <<>> /\ params' = <<>>)]_vars
    /\ [](input \in ErrorInputs({"callable"}, PlainContexts) =>
             /\ pc # "panic"
             /\ pc = "done" => (result = NotCallableError /\ params = <<>>))

\* ( pair 5 ( 1 2 ) ) has returned: the frame of pair, which held 5, and the
\* frame of the error are gone
C29_Witness ==
    /\ input = parse_string(Text(ErrorWords([raise |-> "callable", ctx |-> "arg"])))
    /\ pc = "done"
    /\ result = NotCallableError
    /\ params = <<>>
    /\ program = <<>>

\* C30: whenever a Parameterize marker is on top of the work stack, params
\* holds a frame: the marker is never popped while params is empty.
C30_ParameterizeHasFrame ==
    (Running /\ IsCmd(Top, "Parameterize")) => params # <<>>

\* the unwind native is called with a frame that holds an error
UnwindStep == Raised /\ params # <<>> /\ Last(params) # <<>>

\* C31: no store entry is mapped to an empty stack; a Deparameterize marker
\* popped by the main loop finds a binding for every occurrence of its names
\* and the step does not panic; the scan of unwind does not panic in the
\* teardown of a marker it passes.
C31_TeardownFindsBindings ==
    /\ [](\A name \in DOMAIN store : store[name] # <<>>)
    /\ [][DeparameterizeStep =>
             /\ pc' = "run"
             /\ \A i \in 1..Len(Top.names) :
                    Bindings(store, Top.names[i]) >= Occurrences(Top.names, Top.names[i])]_vars
    /\ [][UnwindStep => pc' = "run"]_vars

\* C32: when optimize_tail_call consumes a Deparameterize marker it does not
\* panic, and of every name it pops no more bindings than the marker lists
\* occurrences of that name: the bindings of the frames below are left.
C32_EagerPopsOwnBindings ==
    MergeStep =>
        LET existing == program[Len(program) - 1].names
        IN  /\ ~Merged.m.panic
            /\ \A name \in DOMAIN store :
                   Bindings(store, name) - Bindings(Merged.m.store, name)
                       <= Occurrences(existing, name)

\* C33: whenever the unwind call is on top of the work stack, the top frame
\* of params is there, is not empty and holds an Error as its last element;
\* unless the scan panics, the step leaves an Error in result.
C33_UnwindFindsError ==
    /\ [](Raised =>
            /\ params # <<>>
            /\ Last(params) # <<>>
            /\ Last(Last(params)).kind = "Error")
    /\ [][Raised => (pc' = "run" => result'.kind = "Error")]_vars

\* a node of the input mentions one of the names
RECURSIVE Mentions(_, _)
Mentions(node, names) ==
    IF node.kind = "Symbol" THEN node.sym \in names
    ELSE IF node.kind = "Pair"
    THEN Mentions(node.head, names) \/ Mentions(node.tail, names)
    ELSE FALSE

\* the input makes no library function and no library macro and does not
\* call eval
BuiltinsOnly ==
    \A i \in 1..Len(input) : ~Mentions(input[i], {w_fn, w_mo, <<"e", "v", "a", "l">>})

\* the evaluation goes on after an error: something other than an unwind
\* call is on top of the work stack
Resumed == pc = "run" /\ program # <<>> /\ Top # make_unwind

\* C34: the step of an unwind call does not abort the evaluation; after an
\* error is raised the evaluation either resumes below a Wind marker or
\* eval returns with the work stack empty; the loop of a program that uses
\* builtins only comes to an end.
C34_ErrorsSettle ==
    /\ [][Raised => pc' = "run"]_vars
    /\ Raised ~> (pc = "done" \/ Resumed)
    /\ BuiltinsOnly => <>(pc \in {"done", "panic"})

=============================================================================
